---- MODULE Spec2Model ----
(***************************************************************************)
(* Request instrumentation lifecycle of django-observability: the metrics  *)
(* collector (metrics.py), the tracing manager (tracing.py) and the        *)
(* request pipeline controller that drives them for every inbound request. *)
(*                                                                         *)
(* Python exceptions are modelled explicitly: every operation returns a    *)
(* record holding the state it leaves behind and `raised`, TRUE when an    *)
(* exception leaves the operation and reaches its caller.  A collaborator  *)
(* call guarded by try/except takes a `fault` input naming the step of the *)
(* try block that raises ("none" when every step succeeds).                *)
(***************************************************************************)
EXTENDS Integers, Sequences, FiniteSets, TLC

\* Number of requests handled concurrently (one execution context each).
NumRequests == 2

\* Number of collaborator calls that raise in one run.
MaxFaults == 1

\* Number of times the cache and database hooks are installed.
MaxLayers == 2

\* Number of cache / database operations issued through the hooks.
MaxHookCalls == 2

\* Number of calls made on the tracing manager's span interface.
MaxTraceCalls == 3

\* Number of calls made on the collector's interface.
MaxCollectorCalls == 3

\* Number of segments of a request path given to the endpoint labeller.
MaxSegments == 3

\* Number of tokens of a path given to the exclusion check.
MaxPathLen == 4

\* Number of threads that ask for the process's collector concurrently.
NumCallers == 2

Req == 1..NumRequests

None == "None"

\* The request argument None of increment_exception_counter.
NoRequest == [absent |-> TRUE]

(***************************************************************************)
(* Request inputs.  A path is the sequence of its characters.              *)
(***************************************************************************)
HealthPath == <<"/", "h", "/">>
TestPath == <<"/", "t", "/">>
OtherPath == <<"/", "o", "/">>

RequestPaths == {HealthPath, TestPath, OtherPath}

\* The paths the host serves with a view; any other path is answered 404.
routed(path) == path \in {HealthPath, TestPath}

\* tests/urls.py: path("test/", test_view, name="test_view") is the only
\* named route.
url_name_of(path) == IF path = TestPath THEN "test_view" ELSE None

\* tests/conftest.py: "EXCLUDE_PATHS": ["/health/", "/metrics/", ...]
EXCLUDE_PATHS == {<<"/", "h", "/">>, <<"/", "m", "/">>}

\* What the business logic of a routed request does: a response with one
\* of these status codes, or an exception (raised by the view, or the
\* host's cancellation of the request surfacing in the handler).
StatusCodes == {200}

ExceptionTypes == {"ValueError"}

\* Request durations in seconds (the lifecycle does not branch on them).
Durations == {1}

\* SAMPLE_RATE values: TraceIdRatioBased(0) samples no trace, (1) every one.
SampleRates == {0, 1}

\* What the host answers for a path no route matches.
UnroutedStatuses == {404}

\* Steps of a collector try block that can raise: the label computation,
\* the counter or histogram write, the gauge write.
Faults == {"none", "labels", "write", "gauge"}

\* The hook installation that raises inside start_request.
HookFaults == {"none", "db", "cache"}

\* Steps of start_request_span that can raise: the attribute computation
\* (request.build_absolute_uri / get_host), tracer.start_span, inject.
StartFaults == {"none", "attrs", "start_span", "inject"}

\* A tracing try block: "sdk" when its first span call raises.
SdkFaults == {"none", "sdk"}

StartsWith(s, p) ==
    /\ Len(p) <= Len(s)
    /\ \A i \in 1..Len(p) : s[i] = p[i]

\* A per-label-set series table: a function from label tuples to counts.
Count(f, k) == IF k \in DOMAIN f THEN f[k] ELSE 0

Bump(f, k) == IF k \in DOMAIN f THEN [f EXCEPT ![k] = @ + 1] ELSE f @@ (k :> 1)

EmptySeries == [k \in {} |-> 0]

(***************************************************************************)
(* MetricsCollector (metrics.py).  The collector is the record `m`:        *)
(*   available              PROMETHEUS_AVAILABLE and _initialized          *)
(*   django_active_requests the gauge                                      *)
(*   http_requests_total    counter, labels <<method, endpoint, status,    *)
(*                          view_name>>                                    *)
(*   http_request_duration  histogram: observations per label set          *)
(*   http_exceptions_total  counter, labels <<method, endpoint, type>>     *)
(*   django_cache_operations_total  counter, labels <<cache_name,          *)
(*                          operation, result>>                            *)
(*   django_db_queries_total counter, labels <<db_alias, query_type>>      *)
(*   custom                 names of the custom instruments registered     *)
(*   cache_layers           recording layers wrapped around cache.get/set  *)
(*   db_hooks               cursors whose execute was reassigned           *)
(***************************************************************************)
is_available(m) == m.available

Ok(m) == [m |-> m, raised |-> FALSE]

Raise(m) == [m |-> m, raised |-> TRUE]

\* A path is the sequence of its characters; the placeholders "{id}" and
\* "{uuid}" are kept as one element each (neither is a digit or a slash,
\* and "{" is not a hexadecimal digit).
Digits == {"0", "1", "2", "3", "4", "5", "6", "7", "8", "9"}

\* The character class [0-9a-f-].
UuidChars == Digits \cup {"a", "b", "c", "d", "e", "f", "-"}

\* The repetition count of the pattern /[0-9a-f-]{36}/.
UuidLen == 36

Least(S) == CHOOSE k \in S : \A j \in S : k <= j

\* The first index from i on that holds no digit (Len(p) + 1 if none).
DigitsEnd(p, i) ==
    Least({k \in i..(Len(p) + 1) : k > Len(p) \/ p[k] \notin Digits})

\* The first index from i on that holds a slash (Len(p) + 1 if none).
NextSlash(p, i) ==
    Least({k \in i..(Len(p) + 1) : k > Len(p) \/ p[k] = "/"})

\* re.sub(r'/\d+/', '/{id}/', path): matches are found left to right and do
\* not overlap, so the slash that closes one match cannot open the next.
SubId(p, i) ==
    LET from[k \in 1..(Len(p) + 1)] ==
            IF k > Len(p) THEN <<>>
            ELSE IF p[k] # "/"
            THEN SubSeq(p, k, NextSlash(p, k) - 1) \o from[NextSlash(p, k)]
            ELSE LET j == DigitsEnd(p, k + 1)
                 IN IF j > k + 1 /\ j <= Len(p) /\ p[j] = "/"
                    THEN <<"/", "{id}", "/">> \o from[j + 1]
                    ELSE <<p[k]>> \o from[k + 1]
    IN from[i]

\* re.sub(r'/[0-9a-f-]{36}/', '/{uuid}/', path), matched the same way.
SubUuid(p, i) ==
    LET from[k \in 1..(Len(p) + 1)] ==
            IF k > Len(p) THEN <<>>
            ELSE IF p[k] # "/"
            THEN SubSeq(p, k, NextSlash(p, k) - 1) \o from[NextSlash(p, k)]
            ELSE LET j == k + UuidLen + 1
                 IN IF /\ j <= Len(p)
                       /\ p[j] = "/"
                       /\ \A c \in (k + 1)..(j - 1) : p[c] \in UuidChars
                    THEN <<"/", "{uuid}", "/">> \o from[j + 1]
                    ELSE <<p[k]>> \o from[k + 1]
    IN from[i]

\* _get_endpoint_label: the resolved route name when there is one, else
\* the path after the two substitutions, without its leading slashes.
LStripSlash(p) ==
    LET lead == {i \in 0..Len(p) : \A j \in 1..i : p[j] = "/"}
        n == CHOOSE i \in lead : \A k \in lead : k <= i
    IN SubSeq(p, n + 1, Len(p))

\* Lines 510-514, the normalization of a path: each statement works on the
\* value the statement before it assigned to `path`.
normalize_path(path) ==
    LET ids == {SubId(q, 1) : q \in {path}}
        uuids == {SubUuid(q, 1) : q \in ids}
    IN CHOOSE label \in {LStripSlash(q) : q \in uuids} : TRUE

get_endpoint_label(request) ==
    IF request.url_name # None THEN <<request.url_name>>
    ELSE normalize_path(request.path)

\* utils.get_view_name: the resolved view, "unknown" when unresolved.
get_view_name(request) ==
    IF request.url_name # None THEN request.url_name ELSE "unknown"

increment_request_counter(m, fault) ==
    IF ~is_available(m) THEN Ok(m)
    ELSE IF fault = "gauge" THEN Ok(m)
    ELSE Ok([m EXCEPT !.django_active_requests = @ + 1])

instrument_database_raw(m) == [m EXCEPT !.db_hooks = @ + 1]

instrument_database(m, hookFault) ==
    IF hookFault = "db" THEN Raise(m) ELSE Ok(instrument_database_raw(m))

instrument_cache(m, hookFault) ==
    IF hookFault = "cache" THEN Raise(m)
    ELSE Ok([m EXCEPT !.cache_layers = @ + 1])

\* A start_request without the is_available guard of line 280.
start_request_unguarded(m, fault, hookFault) ==
    LET a == increment_request_counter(m, fault).m
        b == instrument_database(a, hookFault)
    IN IF b.raised THEN Raise(b.m)
       ELSE instrument_cache(b.m, hookFault)

\* start_request, lines 280-285: the two hook installations are called
\* outside any try block, so what they raise leaves start_request.
start_request(m, fault, hookFault) ==
    IF ~is_available(m) THEN Ok(m)
    ELSE LET a == increment_request_counter(m, fault).m
             b == instrument_database(a, hookFault)
         IN IF b.raised THEN Raise(b.m)
            ELSE instrument_cache(b.m, hookFault)

\* record_request_duration, lines 332-370 (the duration histogram; the two
\* size histograms follow it in the same try block and touch nothing else).
record_request_duration(m, request, status, fault) ==
    IF ~is_available(m) THEN Ok(m)
    ELSE IF fault \in {"labels", "write"} THEN Ok(m)
    ELSE LET key == <<request.method, get_endpoint_label(request),
                      status, get_view_name(request)>>
         IN Ok([m EXCEPT !.http_request_duration = Bump(@, key)])

\* A response counter that counts every response twice.
increment_response_counter_twice(m, request, status, fault) ==
    IF ~is_available(m) THEN Ok(m)
    ELSE LET key == <<request.method, get_endpoint_label(request),
                      status, get_view_name(request)>>
         IN Ok([m EXCEPT !.http_requests_total = Bump(Bump(@, key), key),
                         !.django_active_requests = @ - 1])

\* increment_response_counter, lines 383-405: one try block holds the label
\* computation, the counter write and the gauge decrement, in that order.
increment_response_counter(m, request, status, fault) ==
    IF ~is_available(m) THEN Ok(m)
    ELSE IF fault = "labels" THEN Ok(m)
    ELSE IF fault = "write" THEN Ok(m)
    ELSE LET key == <<request.method, get_endpoint_label(request),
                      status, get_view_name(request)>>
             counted == [m EXCEPT !.http_requests_total = Bump(@, key)]
         IN IF fault = "gauge" THEN Ok(counted)
            ELSE Ok([counted EXCEPT !.django_active_requests = @ - 1])

end_request(m, request, status, faultD, faultR) ==
    IF ~is_available(m) THEN Ok(m)
    ELSE increment_response_counter(
             record_request_duration(m, request, status, faultD).m,
             request, status, faultR)

\* An exception counter that also counts the request as answered.
increment_exception_counter_and_response(m, request, exception_type, fault) ==
    IF ~is_available(m) THEN Ok(m)
    ELSE Ok([m EXCEPT !.http_exceptions_total =
                          Bump(@, <<"GET", <<"unknown">>, exception_type>>),
                      !.http_requests_total =
                          Bump(@, <<"GET", <<"unknown">>, 500, "unknown">>)])

\* increment_exception_counter, lines 415-438; request = NoRequest is the
\* call with request None that the database hook makes.
increment_exception_counter(m, request, exception_type, fault) ==
    IF ~is_available(m) THEN Ok(m)
    ELSE IF fault = "labels" THEN Ok(m)
    ELSE IF fault = "write" THEN Ok(m)
    ELSE LET key == IF request = NoRequest
                    THEN <<"UNKNOWN", <<"unknown">>, exception_type>>
                    ELSE <<request.method, get_endpoint_label(request),
                           exception_type>>
             counted == [m EXCEPT !.http_exceptions_total = Bump(@, key)]
         IN IF request = NoRequest \/ fault = "gauge" THEN Ok(counted)
            ELSE Ok([counted EXCEPT !.django_active_requests = @ - 1])

\* Loading metrics.py: line 13 imports prometheus_client outside the guarded
\* import of lines 15-23, so without the package the module raises
\* ImportError and no collector can be constructed; with it
\* PROMETHEUS_AVAILABLE is True.
import_metrics_module(installed) ==
    [raised |-> ~installed, PROMETHEUS_AVAILABLE |-> installed]

\* generate_latest(self.registry): one sample per series of every
\* registered instrument.
Exposition(m) ==
    {<<"http_requests_total", k, m.http_requests_total[k]>> :
         k \in DOMAIN m.http_requests_total}
    \cup {<<"http_request_duration_seconds_count", k,
            m.http_request_duration[k]>> :
              k \in DOMAIN m.http_request_duration}
    \cup {<<"http_exceptions_total", k, m.http_exceptions_total[k]>> :
              k \in DOMAIN m.http_exceptions_total}
    \cup {<<"django_cache_operations_total", k,
            m.django_cache_operations_total[k]>> :
              k \in DOMAIN m.django_cache_operations_total}
    \cup {<<"django_db_queries_total", k, m.django_db_queries_total[k]>> :
              k \in DOMAIN m.django_db_queries_total}
    \cup {<<"django_active_requests", <<>>, m.django_active_requests>>}
    \cup {<<name, <<>>, 0>> : name \in m.custom}

\* A get_metrics that clears the request counter once it has rendered it.
get_metrics_and_reset(m, fault) ==
    IF ~is_available(m) THEN [m |-> m, raised |-> FALSE, text |-> {}]
    ELSE IF fault = "render" THEN [m |-> m, raised |-> FALSE, text |-> {}]
    ELSE [m |-> [m EXCEPT !.http_requests_total = EmptySeries],
          raised |-> FALSE, text |-> Exposition(m)]

\* get_metrics, lines 547-554: "" (no sample) when the collector is not
\* available or when rendering raises.
get_metrics(m, fault) ==
    IF ~is_available(m) THEN [m |-> m, raised |-> FALSE, text |-> {}]
    ELSE IF fault = "render" THEN [m |-> m, raised |-> FALSE, text |-> {}]
    ELSE [m |-> m, raised |-> FALSE, text |-> Exposition(m)]

\* metrics_view, lines 659-676: the process's collector, its exposition as
\* the content of the response.
metrics_view(m, fault) ==
    LET collected == get_metrics(m, fault)
    IN [m |-> collected.m, raised |-> FALSE, text |-> collected.text]

\* name=f'{prefix}_{name}' (lines 581-583) with the prefix of the tests'
\* configuration, django_app.
metric_name(name) ==
    CASE name = "orders_total" -> "django_app_orders_total"
      [] name = "queue_depth" -> "django_app_queue_depth"

\* A create_custom_* without its try block: a refused registration raises.
create_custom_unguarded(m, name, fault) ==
    IF ~is_available(m) THEN [m |-> m, raised |-> FALSE, result |-> None]
    ELSE IF fault = "create" \/ metric_name(name) \in m.custom
    THEN [m |-> m, raised |-> TRUE, result |-> None]
    ELSE [m |-> [m EXCEPT !.custom = @ \cup {metric_name(name)}],
          raised |-> FALSE, result |-> "instrument"]

\* create_custom_counter / _histogram / _gauge, lines 577-657: the
\* instrument, or None when the collector is not available or the
\* constructor raises: the registry refuses the name (it is already
\* registered) or, with fault "create", the arguments are invalid.
create_custom(m, name, fault) ==
    IF ~is_available(m) THEN [m |-> m, raised |-> FALSE, result |-> None]
    ELSE IF fault = "create" \/ metric_name(name) \in m.custom
    THEN [m |-> m, raised |-> FALSE, result |-> None]
    ELSE [m |-> [m EXCEPT !.custom = @ \cup {metric_name(name)}],
          raised |-> FALSE, result |-> "instrument"]

(***************************************************************************)
(* Cache and database hooks (metrics.py, _instrument_cache and             *)
(* _instrument_database).  A collaborator's outcome is a record: the value *)
(* it returned or the exception it raised.                                 *)
(***************************************************************************)
Returned(v) == [raised |-> FALSE, exception |-> None, value |-> v]

Raised(e) == [raised |-> TRUE, exception |-> e, value |-> None]

NotCalled == [raised |-> FALSE, exception |-> None, value |-> "not_called"]

CacheOutcomes == {Returned("value"), Returned(None), Raised("ConnectionError")}

DbOutcomes == {Returned("rows"), Raised("OperationalError")}

\* The positional arguments of cursor.execute(sql) and
\* cursor.execute(sql, params).
ExecuteArgs == {<<"SELECT 1">>, <<"SELECT 1", "params">>}

\* A record_cache_operation that keeps only the series it writes.
record_cache_operation_single_series(m, operation, res, fault) ==
    IF ~is_available(m) THEN Ok(m)
    ELSE IF fault # "none" THEN Ok(m)
    ELSE LET key == <<"default", operation, res>>
         IN Ok([m EXCEPT !.django_cache_operations_total =
                             key :> (Count(@, key) + 1)])

record_cache_operation(m, operation, res, fault) ==
    IF ~is_available(m) THEN Ok(m)
    ELSE IF fault # "none" THEN Ok(m)
    ELSE Ok([m EXCEPT !.django_cache_operations_total =
                            Bump(@, <<"default", operation, res>>)])

record_db_query(m, db_alias, query_type, fault) ==
    IF ~is_available(m) THEN Ok(m)
    ELSE IF fault # "none" THEN Ok(m)
    ELSE Ok([m EXCEPT !.django_db_queries_total =
                            Bump(@, <<db_alias, query_type>>)])

\* A wrapped_get that records every returned value, None included, as a hit.
wrapped_get_any_return_is_hit(m, layers, original, fault) ==
    IF layers = 0 THEN [m |-> m, out |-> original]
    ELSE LET res == IF original.raised THEN "error" ELSE "hit"
         IN [m |-> record_cache_operation(m, "get", res, fault).m,
             out |-> original]

\* cache.get after `layers` installations: every installation wraps the
\* cache.get it finds, so a call runs through all of them, innermost first.
\* Each layer records the outcome it sees and hands it on (bare `raise`).
RECURSIVE wrapped_get(_, _, _, _)
wrapped_get(m, layers, original, fault) ==
    IF layers = 0 THEN [m |-> m, out |-> original]
    ELSE LET inner == wrapped_get(m, layers - 1, original, fault)
             res == IF inner.out.raised THEN "error"
                    ELSE IF inner.out.value # None THEN "hit" ELSE "miss"
         IN [m |-> record_cache_operation(inner.m, "get", res, fault).m,
             out |-> inner.out]

RECURSIVE wrapped_set(_, _, _, _)
wrapped_set(m, layers, original, fault) ==
    IF layers = 0 THEN [m |-> m, out |-> original]
    ELSE LET inner == wrapped_set(m, layers - 1, original, fault)
             res == IF inner.out.raised THEN "error" ELSE "success"
         IN [m |-> record_cache_operation(inner.m, "set", res, fault).m,
             out |-> inner.out]

get_query_type(sql) == IF sql = "SELECT 1" THEN "SELECT" ELSE "UNKNOWN"

\* wrapped_execute(self, sql, params=()) is assigned to an attribute of a
\* cursor instance, so it is called as a plain function: `self` is the first
\* positional argument of the call and `sql` the second.  With one argument
\* the call fails before the body runs.  Otherwise the collaborator is
\* called with (sql, params); whatever it does, the body then looks up
\* _get_query_type or increment_exception_counter on `self`, and when
\* `self` is not the collector that lookup raises AttributeError: out of
\* the try block into the handler, and out of the handler to the caller.
wrapped_execute(m, args, original) ==
    IF Len(args) < 2
    THEN [m |-> m, out |-> Raised("TypeError"), original |-> NotCalled]
    ELSE LET self == args[1]
             sql == args[2]
         IN IF self # "collector"
            THEN [m |-> m, out |-> Raised("AttributeError"),
                  original |-> original]
            ELSE IF original.raised
            THEN [m |-> increment_exception_counter(m, NoRequest,
                            original.exception, "none").m,
                  out |-> original, original |-> original]
            ELSE [m |-> record_db_query(m, "default", get_query_type(sql),
                                        "none").m,
                  out |-> original, original |-> original]

(***************************************************************************)
(* Spans.  A span is the record                                            *)
(*   state       "unstarted", "recording", "ended", or "noop" for the      *)
(*               non-recording span an unsampled trace gets                *)
(*   status      "UNSET", "OK" or "ERROR"                                  *)
(*   status_code the http.status_code attribute (0 when not set)           *)
(*   duration_ms the http.duration_ms attribute (0 when not set)           *)
(*   exception   TRUE once an exception event was added                    *)
(*   end_calls   span.end() calls that reached the span                    *)
(* The span operations are those of the trace SDK the manager calls: a     *)
(* span that is not recording absorbs every call, a status once OK stays.  *)
(***************************************************************************)
NoSpan ==
    [state |-> "unstarted", status |-> "UNSET", status_code |-> 0,
     duration_ms |-> 0, exception |-> FALSE, end_calls |-> 0]

SpanSetStatusCode(s, code) ==
    IF s.state = "recording" THEN [s EXCEPT !.status_code = code] ELSE s

SpanSetDuration(s, ms) ==
    IF s.state = "recording" THEN [s EXCEPT !.duration_ms = ms] ELSE s

SpanSetStatus(s, status) ==
    IF s.state # "recording" \/ s.status = "OK" \/ status = "UNSET" THEN s
    ELSE [s EXCEPT !.status = status]

SpanRecordException(s) ==
    IF s.state = "recording" THEN [s EXCEPT !.exception = TRUE] ELSE s

SpanEnd(s) ==
    IF s.state = "recording"
    THEN [s EXCEPT !.state = "ended", !.end_calls = @ + 1]
    ELSE [s EXCEPT !.end_calls = @ + 1]

(***************************************************************************)
(* TracingManager (tracing.py).  `t` is the manager ([initialized]), `s`   *)
(* the span of the request, `handle` what the caller holds: None or        *)
(* "span".  Every operation returns [s, handle, raised].                   *)
(***************************************************************************)
TOk(s, handle) == [s |-> s, handle |-> handle, raised |-> FALSE]

TRaise(s, handle) == [s |-> s, handle |-> handle, raised |-> TRUE]

\* start_request_span, lines 266-294: no step of it is inside a try block.
start_request_span(t, s, sampled, fault) ==
    IF ~t.initialized THEN TOk(s, None)
    ELSE IF fault \in {"attrs", "start_span"} THEN TRaise(s, None)
    ELSE LET started == [NoSpan EXCEPT
                            !.state = IF sampled THEN "recording" ELSE "noop"]
         IN IF fault = "inject" THEN TRaise(started, None)
            ELSE TOk(started, "span")

\* An end_request_span that reports every response as a success.
end_request_span_always_ok(t, s, handle, response_status, duration, fault) ==
    IF handle = None \/ ~t.initialized \/ fault = "sdk" THEN TOk(s, handle)
    ELSE TOk(SpanEnd(SpanSetDuration(
                 SpanSetStatus(SpanSetStatusCode(s, response_status), "OK"),
                 duration * 1000)), handle)

\* An end_request_span without the guard of line 312 and without the try
\* block, over a span that accepts writes in any state.
end_request_span_unguarded(t, s, handle, response_status, duration, fault) ==
    IF handle = None \/ fault = "sdk" THEN TRaise(s, handle)
    ELSE TOk([s EXCEPT !.state = "ended",
                       !.status_code = response_status,
                       !.duration_ms = duration * 1000,
                       !.end_calls = @ + 1], handle)

\* end_request_span, lines 312-326; response_status = 0 is response None.
end_request_span(t, s, handle, response_status, duration, fault) ==
    IF handle = None \/ ~t.initialized THEN TOk(s, handle)
    ELSE IF fault = "sdk" THEN TOk(s, handle)
    ELSE LET a == IF response_status # 0
                  THEN SpanSetStatus(
                           SpanSetStatusCode(s, response_status),
                           IF response_status >= 400 THEN "ERROR" ELSE "OK")
                  ELSE s
             b == SpanSetDuration(a, duration * 1000)
         IN TOk(SpanEnd(b), handle)

\* record_exception, lines 336-343.
record_exception(t, s, handle, fault) ==
    IF handle = None \/ ~t.initialized THEN TOk(s, handle)
    ELSE IF fault = "sdk" THEN TOk(s, handle)
    ELSE TOk(SpanSetStatus(SpanRecordException(s), "ERROR"), handle)

(***************************************************************************)
(* Trace propagation in start_request_span (tracing.py, lines 269-292).    *)
(* request.META and a carrier are dicts from header keys to values; a      *)
(* value is the pair <<trace id, span id>> it parses to as a W3C           *)
(* traceparent, <<0, 0>> when it does not parse.  A context is the span    *)
(* context it carries, EmptyContext when it carries none.                  *)
(***************************************************************************)
EmptyContext == <<0, 0>>

NoSpanContext == [trace |-> 0, span |-> 0, parent |-> 0]

\* Before any start_request_span call.
NoPropagation ==
    [meta |-> [k \in {} |-> EmptyContext], ambient |-> EmptyContext,
     context |-> EmptyContext, span_context |-> NoSpanContext,
     carrier |-> [k \in {} |-> EmptyContext], attached |-> FALSE,
     started |-> FALSE, raised |-> FALSE]

\* The META keys that start with "HTTP_" (line 270).
HttpKeys == {"HTTP_HOST", "HTTP_TRACEPARENT"}

\* carrier = {key: value for key, value in request.META.items()
\*            if key.startswith('HTTP_')}
request_carrier(meta) ==
    [k \in {key \in DOMAIN meta : key \in HttpKeys} |-> meta[k]]

\* opentelemetry.propagate.extract(carrier): the default getter reads the
\* key "traceparent" as it is spelled; an absent or unparsable value gives
\* the empty context.
extract(carrier) ==
    IF "traceparent" \in DOMAIN carrier /\ carrier["traceparent"][1] # 0
    THEN carrier["traceparent"]
    ELSE EmptyContext

\* tracer.start_span(context=context): a child of the span the context
\* carries, or the root of a fresh trace when it carries none.
start_span(context, fresh) ==
    IF context # EmptyContext
    THEN [trace |-> context[1], span |-> fresh[2], parent |-> context[2]]
    ELSE [trace |-> fresh[1], span |-> fresh[2], parent |-> 0]

\* opentelemetry.propagate.inject(carrier): called without a context, it
\* writes the span of the current context, `current`, if there is one.
inject(carrier, current) ==
    IF current = EmptyContext THEN carrier
    ELSE [k \in DOMAIN carrier \cup {"traceparent"} |->
              IF k = "traceparent" THEN current ELSE carrier[k]]

\* Lines 269-292 of start_request_span: what is extracted, started,
\* injected and attached to the request.  trace.set_span_in_context (line
\* 288) returns a context that is dropped, so the current context,
\* `ambient`, is what it was before the call.
propagate_request_span(t, meta, ambient, fresh, fault) ==
    LET carrier == request_carrier(meta)
        context == extract(carrier)
        base == [NoPropagation EXCEPT !.meta = meta, !.ambient = ambient]
    IN IF ~t.initialized THEN base
       ELSE IF fault \in {"attrs", "start_span"}
       THEN [base EXCEPT !.context = context, !.raised = TRUE]
       ELSE LET started == [base EXCEPT
                               !.context = context,
                               !.span_context = start_span(context, fresh),
                               !.started = TRUE]
            IN IF fault = "inject" THEN [started EXCEPT !.raised = TRUE]
               ELSE [started EXCEPT !.carrier = inject(carrier, ambient),
                                    !.attached = TRUE]

(***************************************************************************)
(* State.                                                                  *)
(***************************************************************************)
VARIABLES
    metrics,    \* the process-wide MetricsCollector
    tracing,    \* the process-wide TracingManager
    request,    \* per request: the inbound request and what is attached to it
    span,       \* per request: its top-level span
    pc,         \* per request: received, excluded, admitted, biz_done,
                \*   completed, failed, passed
    biz,        \* per request: what the business logic produced
    result,     \* per request: what the controller handed back to the host
    logs,       \* per request: log records emitted, per event
    hist,       \* per request: history of the instrumentation calls made
    faults,     \* collaborator calls that raised so far
    hook,       \* the last call made through a cache or database hook
    call,       \* the last call made on the Tracing Manager's span API
    mcall,      \* the last call made on the collector's interface
    lbl,        \* the last endpoint label computed, with its path
    setup,      \* the construction of a TracingManager and its outcome
    prop,       \* the trace propagation of the last span started
    excl,       \* the last path given to the exclusion check, and the answer
    single      \* the module's collector slot and the callers asking for it

vars == <<metrics, tracing, request, span, pc, biz, result, logs, hist,
          faults, hook, call, mcall, lbl, setup, prop, excl,
          single>>

Cost(fault) == IF fault = "none" THEN 0 ELSE 1

NewCollector(available) ==
    [available |-> available, django_active_requests |-> 0,
     http_requests_total |-> EmptySeries,
     http_request_duration |-> EmptySeries,
     http_exceptions_total |-> EmptySeries,
     django_cache_operations_total |-> EmptySeries,
     django_db_queries_total |-> EmptySeries,
     custom |-> {},
     cache_layers |-> IF available THEN 1 ELSE 0,
     db_hooks |-> IF available THEN 1 ELSE 0]

NewRequest(path) ==
    [path |-> path, method |-> "GET", url_name |-> None,
     observability_correlation_id |-> 0, observability_span |-> None]

NoHookCall ==
    [op |-> "none", layers |-> 0, original |-> NotCalled, out |-> NotCalled,
     calls |-> 0]

NoApiCall ==
    [op |-> "none", r |-> 0, handle |-> None, before |-> NoSpan,
     response_status |-> 0, duration |-> 0, fault |-> "none",
     raised |-> FALSE, calls |-> 0]

NoCollectorCall ==
    [op |-> "none", request |-> NoRequest, status |-> 0, exception |-> None,
     faults |-> <<>>, before |-> NewCollector(FALSE), raised |-> FALSE,
     result |-> None, text |-> {}, name |-> None, previous |-> "none",
     calls |-> 0]

NoLabel ==
    [segments |-> <<>>, trailing |-> FALSE, url_name |-> None,
     label |-> <<>>, again |-> <<>>, done |-> FALSE]

NoSetup ==
    [available |-> TRUE, endpoints |-> {}, debug |-> FALSE, failing |-> {},
     processors |-> {}, logged |-> {}, provider_installed |-> FALSE,
     initialized |-> FALSE, instrumented |-> FALSE, raised |-> FALSE,
     done |-> FALSE]

NoCheck == [path |-> <<>>, traced |-> TRUE, done |-> FALSE]

\* The module as loaded: _metrics_collector_instance is None (0 here), no
\* collector was constructed and no thread has called get_metrics_collector.
\* Collectors are numbered in the order of their construction.
Callers == 1..NumCallers

NoSingleton ==
    [metrics_collector_instance |-> 0,
     constructed |-> <<>>,
     pc |-> [t \in Callers |-> "idle"],
     config |-> [t \in Callers |-> None],
     made |-> [t \in Callers |-> 0],
     returned |-> [t \in Callers |-> 0]]

NoResult ==
    [process_request |-> "unset", process_exception |-> "unset",
     status |-> 0, exception |-> None]

NoHist ==
    [calls |-> {}, escaped |-> {}, cids |-> 0, spans |-> 0,
     gauge_inc |-> 0, gauge_dec |-> 0, terminals |-> 0]

Init ==
    /\ \E a \in BOOLEAN : metrics = NewCollector(a)
    /\ \E i \in BOOLEAN, sr \in SampleRates :
           /\ i \/ sr = 1
           /\ tracing = [initialized |-> i, sample_rate |-> sr]
    /\ request \in [Req -> {NewRequest(p) : p \in RequestPaths}]
    /\ span = [r \in Req |-> NoSpan]
    /\ pc = [r \in Req |-> "received"]
    /\ biz = [r \in Req |-> [kind |-> "none", status |-> 0, exception |-> None]]
    /\ result = [r \in Req |-> NoResult]
    /\ logs = [r \in Req |-> [start |-> 0, end |-> 0, exception |-> 0]]
    /\ hist = [r \in Req |-> NoHist]
    /\ faults = 0
    /\ hook = NoHookCall
    /\ call = NoApiCall
    /\ mcall = NoCollectorCall
    /\ lbl = NoLabel
    /\ setup = NoSetup
    /\ prop = NoPropagation
    /\ excl = NoCheck
    /\ single = NoSingleton

(***************************************************************************)
(* Request pipeline controller (the middleware).                           *)
(***************************************************************************)
\* A controller without the exclusion check.
trace_every_path(path) == TRUE

\* An exclusion check that excludes only the listed paths themselves.
should_trace_request_exact(path) == path \notin EXCLUDE_PATHS

\* config.should_trace_request: a prefix match against EXCLUDE_PATHS.
should_trace_request(path) ==
    ~ \E p \in EXCLUDE_PATHS : StartsWith(path, p)

\* The Correlation Generator: an identifier no other request carries.
new_correlation_id(r) == r

Escaped(name, res) == IF res.raised THEN {name} ELSE {}

\* A controller without the guard: the exception of an instrumentation call
\* becomes the handler's outcome.
propagated(outcome, raised) == IF raised THEN "error" ELSE outcome

\* The controller's guard around its instrumentation calls: an exception
\* that leaves one is caught and logged there, and the handler returns what
\* it would have returned anyway.
isolated(outcome, raised) == outcome

\* Step 1 and 2 of the lifecycle: exclusion check, then correlation id,
\* Metrics Registry start, Tracing Manager start, "request start" log.
\* Every instrumentation call is isolated at the call site.
process_request(r) ==
    /\ pc[r] = "received"
    /\ UNCHANGED <<hook, call, mcall, lbl, setup, prop, excl, single>>
    /\ IF ~should_trace_request(request[r].path)
       THEN /\ pc' = [pc EXCEPT ![r] = "excluded"]
            /\ result' = [result EXCEPT ![r].process_request = None]
            /\ UNCHANGED <<metrics, tracing, request, span, biz, logs, hist,
                           faults>>
       ELSE \E mf \in {"none", "gauge"}, hf \in HookFaults,
               sf \in StartFaults :
            LET mres == start_request(metrics, mf, hf)
                tres == start_request_span(tracing, span[r],
                                           tracing.sample_rate = 1, sf)
            IN /\ is_available(metrics) \/ (mf = "none" /\ hf = "none")
               /\ tracing.initialized \/ sf = "none"
               /\ faults + Cost(mf) + Cost(hf) + Cost(sf) <= MaxFaults
               /\ faults' = faults + Cost(mf) + Cost(hf) + Cost(sf)
               /\ request' = [request EXCEPT
                     ![r].observability_correlation_id = new_correlation_id(r),
                     ![r].observability_span = tres.handle]
               /\ metrics' = mres.m
               /\ span' = [span EXCEPT ![r] = tres.s]
               /\ logs' = [logs EXCEPT ![r].start = @ + 1]
               /\ hist' = [hist EXCEPT
                     ![r].calls = @ \cup {"start_request", "start_request_span"},
                     ![r].escaped = @ \cup Escaped("start_request", mres)
                                      \cup Escaped("start_request_span", tres),
                     ![r].cids = @ + 1,
                     ![r].spans = @ + (IF tres.s.state # "unstarted"
                                       THEN 1 ELSE 0),
                     ![r].gauge_inc = @ + (mres.m.django_active_requests
                                           - metrics.django_active_requests)]
               /\ result' = [result EXCEPT ![r].process_request =
                                 isolated(None, mres.raised \/ tres.raised)]
               /\ pc' = [pc EXCEPT ![r] = "admitted"]
               /\ UNCHANGED <<tracing, biz>>

\* The host: routes the request and runs the business logic.
BusinessLogic(r) ==
    /\ pc[r] \in {"excluded", "admitted"}
    /\ LET name == url_name_of(request[r].path)
       IN /\ request' = [request EXCEPT ![r].url_name = name]
          /\ \/ /\ ~routed(request[r].path)
                /\ \E st \in UnroutedStatuses :
                       biz' = [biz EXCEPT ![r] =
                           [kind |-> "response", status |-> st,
                            exception |-> None]]
             \/ /\ routed(request[r].path)
                /\ \E st \in StatusCodes :
                       biz' = [biz EXCEPT ![r] =
                           [kind |-> "response", status |-> st,
                            exception |-> None]]
             \/ /\ routed(request[r].path)
                /\ \E e \in ExceptionTypes :
                       biz' = [biz EXCEPT ![r] =
                           [kind |-> "exception", status |-> 0,
                            exception |-> e]]
    /\ pc' = [pc EXCEPT ![r] = "biz_done"]
    /\ UNCHANGED <<metrics, tracing, span, result, logs, hist, faults,
                   hook, call, mcall, lbl, setup, prop, excl, single>>

\* Step 3, completed: end the span, record the completion, log it, and
\* hand the business response back.  A request that was never admitted
\* carries no context and passes through.
process_response(r) ==
    /\ pc[r] = "biz_done"
    /\ biz[r].kind = "response"
    /\ UNCHANGED <<hook, call, mcall, lbl, setup, prop, excl, single>>
    /\ result' = [result EXCEPT ![r].status = biz[r].status]
    /\ IF request[r].observability_correlation_id = 0
       THEN /\ pc' = [pc EXCEPT ![r] = "passed"]
            /\ UNCHANGED <<metrics, tracing, request, span, biz, logs, hist,
                           faults>>
       ELSE \E sf \in SdkFaults, df \in {"none", "labels", "write"},
               rf \in Faults, duration \in Durations :
            LET tres == end_request_span(tracing, span[r],
                            request[r].observability_span, biz[r].status,
                            duration, sf)
                mres == end_request(metrics, request[r], biz[r].status,
                                    df, rf)
            IN /\ is_available(metrics) \/ (df = "none" /\ rf = "none")
               /\ (tracing.initialized
                      /\ request[r].observability_span # None)
                  \/ sf = "none"
               /\ faults + Cost(sf) + Cost(df) + Cost(rf) <= MaxFaults
               /\ faults' = faults + Cost(sf) + Cost(df) + Cost(rf)
               /\ span' = [span EXCEPT ![r] = tres.s]
               /\ metrics' = mres.m
               /\ logs' = [logs EXCEPT ![r].end = @ + 1]
               /\ hist' = [hist EXCEPT
                     ![r].calls = @ \cup {"end_request_span", "end_request"},
                     ![r].escaped = @ \cup Escaped("end_request_span", tres)
                                      \cup Escaped("end_request", mres),
                     ![r].gauge_dec = @ + (metrics.django_active_requests
                                           - mres.m.django_active_requests),
                     ![r].terminals = @ + 1]
               /\ pc' = [pc EXCEPT ![r] = "completed"]
               /\ UNCHANGED <<tracing, request, biz>>

\* A failed path that hands the exception back without its terminal calls.
process_exception_unrecorded(r) ==
    /\ pc[r] = "biz_done"
    /\ biz[r].kind = "exception"
    /\ result' = [result EXCEPT ![r].process_exception = None,
                                ![r].exception = biz[r].exception]
    /\ pc' = [pc EXCEPT ![r] = IF request[r].observability_correlation_id = 0
                               THEN "passed" ELSE "failed"]
    /\ UNCHANGED <<metrics, tracing, request, span, biz, logs, hist, faults,
                   hook, call, mcall, lbl, setup, prop, excl, single>>

\* Step 4, failed: record the exception on the span and end it, count the
\* exception, log it, and return None so the host goes on propagating the
\* original exception.
process_exception(r) ==
    /\ pc[r] = "biz_done"
    /\ biz[r].kind = "exception"
    /\ UNCHANGED <<hook, call, mcall, lbl, setup, prop, excl, single>>
    /\ result' = [result EXCEPT ![r].process_exception = None,
                                ![r].exception = biz[r].exception]
    /\ IF request[r].observability_correlation_id = 0
       THEN /\ pc' = [pc EXCEPT ![r] = "passed"]
            /\ UNCHANGED <<metrics, tracing, request, span, biz, logs, hist,
                           faults>>
       ELSE \E xf \in SdkFaults, sf \in SdkFaults, mf \in Faults,
               duration \in Durations :
            LET xres == record_exception(tracing, span[r],
                            request[r].observability_span, xf)
                tres == end_request_span(tracing, xres.s,
                            request[r].observability_span, 0, duration, sf)
                mres == increment_exception_counter(metrics, request[r],
                            biz[r].exception, mf)
            IN /\ is_available(metrics) \/ mf = "none"
               /\ (tracing.initialized
                      /\ request[r].observability_span # None)
                  \/ (xf = "none" /\ sf = "none")
               /\ faults + Cost(xf) + Cost(sf) + Cost(mf) <= MaxFaults
               /\ faults' = faults + Cost(xf) + Cost(sf) + Cost(mf)
               /\ span' = [span EXCEPT ![r] = tres.s]
               /\ metrics' = mres.m
               /\ logs' = [logs EXCEPT ![r].exception = @ + 1]
               /\ hist' = [hist EXCEPT
                     ![r].calls = @ \cup {"record_exception",
                                          "end_request_span",
                                          "increment_exception_counter"},
                     ![r].escaped = @ \cup Escaped("record_exception", xres)
                               \cup Escaped("end_request_span", tres)
                               \cup Escaped("increment_exception_counter",
                                            mres),
                     ![r].gauge_dec = @ + (metrics.django_active_requests
                                           - mres.m.django_active_requests),
                     ![r].terminals = @ + 1]
               /\ pc' = [pc EXCEPT ![r] = "failed"]
               /\ UNCHANGED <<tracing, request, biz>>

Next ==
    \E r \in Req :
        \/ process_request(r)
        \/ BusinessLogic(r)
        \/ process_response(r)
        \/ process_exception(r)

Spec == Init /\ [][Next]_vars

\* Each request runs in an execution context of its own and the host always
\* calls back into the controller, so no enabled step of a request waits
\* forever.
LiveSpec ==
    /\ Spec
    /\ \A r \in Req :
           WF_vars(process_request(r) \/ BusinessLogic(r)
                   \/ process_response(r) \/ process_exception(r))

(***************************************************************************)
(* The cache and database hooks on their own: the hooks are reinstalled    *)
(* (as start_request does for every request) and application code calls    *)
(* cache.get, cache.set and cursor.execute.                                *)
(***************************************************************************)
lifecycle == <<request, pc, biz, result, logs, hist>>

HookCall(op, res, original) ==
    [op |-> op, layers |-> metrics.cache_layers, original |-> original,
     out |-> res.out, calls |-> hook.calls + 1]

\* start_request, lines 284-285: "Reapply per request".
reinstall_hooks ==
    /\ is_available(metrics)
    /\ metrics.cache_layers < MaxLayers
    /\ metrics.db_hooks < MaxLayers
    /\ \E hf \in HookFaults :
           /\ faults + Cost(hf) <= MaxFaults
           /\ faults' = faults + Cost(hf)
           /\ metrics' = start_request(metrics, "none", hf).m
    /\ UNCHANGED <<tracing, span, hook, call, mcall, lbl, setup, prop, excl, single, lifecycle>>

cache_get ==
    /\ hook.calls < MaxHookCalls
    /\ \E original \in CacheOutcomes, fault \in {"none", "write"} :
           LET res == wrapped_get(metrics, metrics.cache_layers, original,
                                  fault)
           IN /\ (is_available(metrics) /\ metrics.cache_layers > 0)
                 \/ fault = "none"
              /\ faults + Cost(fault) <= MaxFaults
              /\ faults' = faults + Cost(fault)
              /\ metrics' = res.m
              /\ hook' = HookCall("cache.get", res, original)
    /\ UNCHANGED <<tracing, span, call, mcall, lbl, setup, prop, excl, single, lifecycle>>

cache_set ==
    /\ hook.calls < MaxHookCalls
    /\ \E original \in {Returned(None), Raised("ConnectionError")},
          fault \in {"none", "write"} :
           LET res == wrapped_set(metrics, metrics.cache_layers, original,
                                  fault)
           IN /\ (is_available(metrics) /\ metrics.cache_layers > 0)
                 \/ fault = "none"
              /\ faults + Cost(fault) <= MaxFaults
              /\ faults' = faults + Cost(fault)
              /\ metrics' = res.m
              /\ hook' = HookCall("cache.set", res, original)
    /\ UNCHANGED <<tracing, span, call, mcall, lbl, setup, prop, excl, single, lifecycle>>

\* connection.cursor().execute(...): on a cursor whose execute attribute
\* was reassigned by _instrument_database (line 207), or on a cursor the
\* connection created afresh, which carries the class's own execute.
cursor_execute ==
    /\ hook.calls < MaxHookCalls
    /\ \E hooked \in BOOLEAN, args \in ExecuteArgs, original \in DbOutcomes :
           LET res == IF hooked
                      THEN wrapped_execute(metrics, args, original)
                      ELSE [m |-> metrics, out |-> original,
                            original |-> original]
           IN /\ hooked => metrics.db_hooks > 0
              /\ metrics' = res.m
              /\ hook' = HookCall(IF hooked THEN "hooked cursor.execute"
                                  ELSE "fresh cursor.execute",
                                  res, res.original)
    /\ UNCHANGED <<tracing, span, call, mcall, lbl, setup, prop, excl, single, faults, lifecycle>>

HookNext ==
    \/ reinstall_hooks
    \/ cache_get
    \/ cache_set
    \/ cursor_execute

HookSpec == Init /\ [][HookNext]_vars

(***************************************************************************)
(* The Tracing Manager's span interface on its own: any caller may start   *)
(* a request's span, end it and record an exception on it, in any order    *)
(* and any number of times, with the handle it was given or with None.     *)
(***************************************************************************)
ResponseStatuses == {200, 500}

TraceDurations == {1, 2}

Handles(r) == {request[r].observability_span, None}

ApiCall(op, r, handle, response_status, duration, fault, res) ==
    [op |-> op, r |-> r, handle |-> handle, before |-> span[r],
     response_status |-> response_status, duration |-> duration,
     fault |-> fault, raised |-> res.raised, calls |-> call.calls + 1]

span_start(r) ==
    /\ call.calls < MaxTraceCalls
    /\ span[r].state = "unstarted"
    /\ \E sf \in StartFaults :
           LET res == start_request_span(tracing, span[r],
                                         tracing.sample_rate = 1, sf)
           IN /\ tracing.initialized \/ sf = "none"
              /\ faults + Cost(sf) <= MaxFaults
              /\ faults' = faults + Cost(sf)
              /\ span' = [span EXCEPT ![r] = res.s]
              /\ request' = [request EXCEPT
                                ![r].observability_span = res.handle]
              /\ call' = ApiCall("start_request_span", r, None, 0, 0, sf,
                                 res)
    /\ UNCHANGED <<metrics, tracing, pc, biz, result, logs, hist, hook,
                   mcall, lbl, setup, prop, excl, single>>

span_end(r) ==
    /\ call.calls < MaxTraceCalls
    /\ \E handle \in Handles(r), status \in ResponseStatuses \cup {0},
          duration \in TraceDurations, sf \in SdkFaults :
           LET res == end_request_span(tracing, span[r], handle, status,
                                       duration, sf)
           IN /\ (tracing.initialized /\ handle # None) \/ sf = "none"
              /\ faults + Cost(sf) <= MaxFaults
              /\ faults' = faults + Cost(sf)
              /\ span' = [span EXCEPT ![r] = res.s]
              /\ call' = ApiCall("end_request_span", r, handle, status,
                                 duration, sf, res)
    /\ UNCHANGED <<metrics, tracing, hook, mcall, lbl, setup, prop, excl, single, lifecycle>>

span_record_exception(r) ==
    /\ call.calls < MaxTraceCalls
    /\ \E handle \in Handles(r), sf \in SdkFaults :
           LET res == record_exception(tracing, span[r], handle, sf)
           IN /\ (tracing.initialized /\ handle # None) \/ sf = "none"
              /\ faults + Cost(sf) <= MaxFaults
              /\ faults' = faults + Cost(sf)
              /\ span' = [span EXCEPT ![r] = res.s]
              /\ call' = ApiCall("record_exception", r, handle, 0, 0, sf,
                                 res)
    /\ UNCHANGED <<metrics, tracing, hook, mcall, lbl, setup, prop, excl, single, lifecycle>>

TracingNext ==
    \E r \in Req :
        \/ span_start(r)
        \/ span_end(r)
        \/ span_record_exception(r)

TracingSpec == Init /\ [][TracingNext]_vars

(***************************************************************************)
(* The collector's interface on its own: a process loads metrics.py and    *)
(* constructs a collector, or works with the one it has, and calls the     *)
(* collector's methods in any order with any arguments.                    *)
(***************************************************************************)
\* Requests as the collector sees them at completion: routed, so that
\* resolver_match carries the route name where the route has one.
ResolvedRequests ==
    {[NewRequest(p) EXCEPT !.url_name = url_name_of(p)] :
         p \in {TestPath, OtherPath}}

CustomNames == {"orders_total", "queue_depth"}

CacheResults == {<<"get", "hit">>, <<"set", "error">>}

CollectorCall(op, req, status, exception, fs, res, returned, text) ==
    [op |-> op, request |-> req, status |-> status, exception |-> exception,
     faults |-> fs, before |-> metrics, raised |-> res.raised,
     result |-> returned, text |-> text, name |-> None,
     previous |-> mcall.op, calls |-> mcall.calls + 1]

\* No call can follow a failed load of the module.
CanCall ==
    /\ mcall.calls < MaxCollectorCalls
    /\ ~(mcall.op = "construct" /\ mcall.raised)

others == <<tracing, request, span, pc, biz, result, logs, hist, hook, call,
            lbl, setup, prop, excl, single>>

CollectorInit ==
    /\ \E a \in BOOLEAN : metrics = NewCollector(a)
    /\ tracing = [initialized |-> TRUE, sample_rate |-> 1]
    /\ request = [r \in Req |-> NewRequest(TestPath)]
    /\ span = [r \in Req |-> NoSpan]
    /\ pc = [r \in Req |-> "received"]
    /\ biz = [r \in Req |-> [kind |-> "none", status |-> 0, exception |-> None]]
    /\ result = [r \in Req |-> NoResult]
    /\ logs = [r \in Req |-> [start |-> 0, end |-> 0, exception |-> 0]]
    /\ hist = [r \in Req |-> NoHist]
    /\ faults = 0
    /\ hook = NoHookCall
    /\ call = NoApiCall
    /\ mcall = NoCollectorCall
    /\ lbl = NoLabel
    /\ setup = NoSetup
    /\ prop = NoPropagation
    /\ excl = NoCheck
    /\ single = NoSingleton

\* import django_observability.metrics; MetricsCollector(config)
collector_construct ==
    /\ mcall.calls = 0
    /\ \E installed \in BOOLEAN :
           LET mod == import_metrics_module(installed)
           IN /\ metrics' = IF mod.raised THEN metrics
                            ELSE NewCollector(mod.PROMETHEUS_AVAILABLE)
              /\ mcall' = CollectorCall("construct", NoRequest, 0, None,
                                        <<>>, mod, None, {})
    /\ UNCHANGED <<faults, others>>

collector_start_request ==
    /\ CanCall
    /\ \E mf \in {"none", "gauge"}, hf \in HookFaults :
           LET res == start_request(metrics, mf, hf)
           IN /\ is_available(metrics) \/ (mf = "none" /\ hf = "none")
              /\ faults + Cost(mf) + Cost(hf) <= MaxFaults
              /\ faults' = faults + Cost(mf) + Cost(hf)
              /\ metrics' = res.m
              /\ mcall' = CollectorCall("start_request", NoRequest, 0, None,
                                        <<mf, hf>>, res, None, {})
    /\ UNCHANGED others

collector_end_request ==
    /\ CanCall
    /\ \E req \in ResolvedRequests, st \in ResponseStatuses,
          df \in {"none", "labels", "write"}, rf \in Faults :
           LET res == end_request(metrics, req, st, df, rf)
           IN /\ is_available(metrics) \/ (df = "none" /\ rf = "none")
              /\ faults + Cost(df) + Cost(rf) <= MaxFaults
              /\ faults' = faults + Cost(df) + Cost(rf)
              /\ metrics' = res.m
              /\ mcall' = CollectorCall("end_request", req, st, None,
                                        <<df, rf>>, res, None, {})
    /\ UNCHANGED others

collector_increment_exception_counter ==
    /\ CanCall
    /\ \E req \in ResolvedRequests \cup {NoRequest}, e \in ExceptionTypes,
          f \in Faults :
           LET res == increment_exception_counter(metrics, req, e, f)
           IN /\ is_available(metrics) \/ f = "none"
              /\ faults + Cost(f) <= MaxFaults
              /\ faults' = faults + Cost(f)
              /\ metrics' = res.m
              /\ mcall' = CollectorCall("increment_exception_counter", req,
                                        0, e, <<f>>, res, None, {})
    /\ UNCHANGED others

collector_record_db_query ==
    /\ CanCall
    /\ \E f \in {"none", "write"} :
           LET res == record_db_query(metrics, "default", "SELECT", f)
           IN /\ is_available(metrics) \/ f = "none"
              /\ faults + Cost(f) <= MaxFaults
              /\ faults' = faults + Cost(f)
              /\ metrics' = res.m
              /\ mcall' = CollectorCall("record_db_query", NoRequest, 0,
                                        None, <<f>>, res, None, {})
    /\ UNCHANGED others

collector_record_cache_operation ==
    /\ CanCall
    /\ \E c \in CacheResults, f \in {"none", "write"} :
           LET res == record_cache_operation(metrics, c[1], c[2], f)
           IN /\ is_available(metrics) \/ f = "none"
              /\ faults + Cost(f) <= MaxFaults
              /\ faults' = faults + Cost(f)
              /\ metrics' = res.m
              /\ mcall' = CollectorCall("record_cache_operation", NoRequest,
                                        0, None, <<f>>, res, None, {})
    /\ UNCHANGED others

collector_get_metrics ==
    /\ CanCall
    /\ \E f \in {"none", "render"} :
           LET res == get_metrics(metrics, f)
           IN /\ is_available(metrics) \/ f = "none"
              /\ faults + Cost(f) <= MaxFaults
              /\ faults' = faults + Cost(f)
              /\ metrics' = res.m
              /\ mcall' = CollectorCall("get_metrics", NoRequest, 0, None,
                                        <<f>>, res, None, res.text)
    /\ UNCHANGED others

\* GET of the metrics endpoint.
collector_metrics_view ==
    /\ CanCall
    /\ \E f \in {"none", "render"} :
           LET res == metrics_view(metrics, f)
           IN /\ is_available(metrics) \/ f = "none"
              /\ faults + Cost(f) <= MaxFaults
              /\ faults' = faults + Cost(f)
              /\ metrics' = res.m
              /\ mcall' = CollectorCall("metrics_view", NoRequest, 0, None,
                                        <<f>>, res, None, res.text)
    /\ UNCHANGED others

collector_create_custom ==
    /\ CanCall
    /\ \E name \in CustomNames, f \in {"none", "create"} :
           LET res == create_custom(metrics, name, f)
           IN /\ is_available(metrics) \/ f = "none"
              /\ faults + Cost(f) <= MaxFaults
              /\ faults' = faults + Cost(f)
              /\ metrics' = res.m
              /\ mcall' = [CollectorCall("create_custom", NoRequest, 0,
                                         None, <<f>>, res, res.result, {})
                               EXCEPT !.name = name]
    /\ UNCHANGED others

CollectorNext ==
    \/ collector_construct
    \/ collector_start_request
    \/ collector_end_request
    \/ collector_increment_exception_counter
    \/ collector_record_db_query
    \/ collector_record_cache_operation
    \/ collector_get_metrics
    \/ collector_metrics_view
    \/ collector_create_custom

CollectorSpec == CollectorInit /\ [][CollectorNext]_vars

(***************************************************************************)
(* The endpoint labeller on its own: _get_endpoint_label applied to a      *)
(* request whose path is made of up to MaxSegments segments, with or       *)
(* without a closing slash, with or without a resolved route name.         *)
(***************************************************************************)
Uuid(c) == [i \in 1..UuidLen |-> IF i \in {9, 14, 19, 24} THEN "-" ELSE c]

Segments ==
    {<<"u", "s">>, <<"1">>, <<"2", "3">>, Uuid("a"), Uuid("4")}

RECURSIVE JoinPath(_, _)
JoinPath(segs, trailing) ==
    IF segs = <<>> THEN (IF trailing THEN <<"/">> ELSE <<>>)
    ELSE <<"/">> \o Head(segs) \o JoinPath(Tail(segs), trailing)

SegmentLists == UNION {[1..n -> Segments] : n \in 1..MaxSegments}

LabelInit ==
    /\ \E segs \in SegmentLists, t \in BOOLEAN,
          name \in {None, "user_detail"} :
           lbl = [NoLabel EXCEPT !.segments = segs, !.trailing = t,
                                 !.url_name = name]
    /\ metrics = NewCollector(TRUE)
    /\ tracing = [initialized |-> TRUE, sample_rate |-> 1]
    /\ request = [r \in Req |-> NewRequest(TestPath)]
    /\ span = [r \in Req |-> NoSpan]
    /\ pc = [r \in Req |-> "received"]
    /\ biz = [r \in Req |-> [kind |-> "none", status |-> 0, exception |-> None]]
    /\ result = [r \in Req |-> NoResult]
    /\ logs = [r \in Req |-> [start |-> 0, end |-> 0, exception |-> 0]]
    /\ hist = [r \in Req |-> NoHist]
    /\ faults = 0
    /\ hook = NoHookCall
    /\ call = NoApiCall
    /\ mcall = NoCollectorCall
    /\ setup = NoSetup
    /\ prop = NoPropagation
    /\ excl = NoCheck
    /\ single = NoSingleton

LabelledRequest(segs, trailing, name) ==
    [NewRequest(JoinPath(segs, trailing)) EXCEPT !.url_name = name]

\* The label of the request, and the normalization applied to that label.
label_request ==
    /\ ~lbl.done
    /\ LET label == get_endpoint_label(
                        LabelledRequest(lbl.segments, lbl.trailing,
                                        lbl.url_name))
       IN lbl' = [lbl EXCEPT !.label = label,
                             !.again = normalize_path(label),
                             !.done = TRUE]
    /\ UNCHANGED <<metrics, tracing, request, span, pc, biz, result, logs,
                   hist, faults, hook, call, mcall, setup, prop, excl, single>>

LabelNext == label_request

LabelSpec == LabelInit /\ [][LabelNext]_vars

(***************************************************************************)
(* Construction of the TracingManager (tracing.py, __init__,               *)
(* _setup_tracing, _setup_exporters, _setup_instrumentations).  The        *)
(* configuration names the sinks whose endpoint is set and DEBUG_MODE;     *)
(* `failing` names the steps that raise: the constructor of a sink's       *)
(* exporter, "provider" (Resource.create / TracerProvider /                *)
(* set_tracer_provider) and "instrument" (DjangoInstrumentor).             *)
(***************************************************************************)
\* TRACING_EXPORT_ENDPOINT, JAEGER_ENDPOINT, ZIPKIN_ENDPOINT.
Sinks == {"otlp", "jaeger", "zipkin"}

SetupFaults == Sinks \cup {"provider", "instrument"}

\* One sink of _setup_exporters: `guard` is the condition of its `if`, the
\* try block appends the exporter unless its constructor raises.
setup_exporter(sink, guard, failing) ==
    [attempted |-> IF guard THEN {sink} ELSE {},
     exporters |-> IF guard /\ sink \notin failing THEN {sink} ELSE {},
     logged    |-> IF guard /\ sink \in failing THEN {sink} ELSE {}]

\* A _setup_exporters that adds the console exporter in DEBUG_MODE only.
setup_exporters_console_in_debug_only(endpoints, debug, failing) ==
    LET otlp == setup_exporter("otlp", "otlp" \in endpoints, failing)
        jaeger == setup_exporter("jaeger",
                                 "jaeger" \in endpoints
                                     /\ otlp.exporters = {},
                                 failing)
        zipkin == setup_exporter("zipkin",
                                 "zipkin" \in endpoints
                                     /\ otlp.exporters \cup jaeger.exporters
                                            = {},
                                 failing)
        named == otlp.exporters \cup jaeger.exporters \cup zipkin.exporters
        console == IF debug THEN {"console"} ELSE {}
    IN [attempted |-> otlp.attempted \cup jaeger.attempted
                          \cup zipkin.attempted,
        processors |-> named \cup console,
        logged |-> otlp.logged \cup jaeger.logged \cup zipkin.logged]

\* _setup_exporters, lines 113-159.
setup_exporters(endpoints, debug, failing) ==
    LET otlp == setup_exporter("otlp", "otlp" \in endpoints, failing)
        jaeger == setup_exporter("jaeger",
                                 "jaeger" \in endpoints
                                     /\ otlp.exporters = {},
                                 failing)
        zipkin == setup_exporter("zipkin",
                                 "zipkin" \in endpoints
                                     /\ otlp.exporters \cup jaeger.exporters
                                            = {},
                                 failing)
        named == otlp.exporters \cup jaeger.exporters \cup zipkin.exporters
        console == IF debug \/ named = {} THEN {"console"} ELSE {}
    IN [attempted |-> otlp.attempted \cup jaeger.attempted
                          \cup zipkin.attempted,
        processors |-> named \cup console,
        logged |-> otlp.logged \cup jaeger.logged \cup zipkin.logged]

\* A _setup_tracing that marks the manager initialized before its first
\* step, so that a failed setup leaves it initialized.
setup_tracing_initialized_first(st, failing) ==
    IF "provider" \in failing
    THEN [st EXCEPT !.logged = @ \cup {"tracing"}, !.raised = st.debug,
                    !.initialized = TRUE]
    ELSE LET e == setup_exporters(st.endpoints, st.debug, failing)
         IN [st EXCEPT !.processors = e.processors,
                       !.logged = @ \cup e.logged,
                       !.provider_installed = TRUE,
                       !.initialized = TRUE]

\* _setup_tracing, lines 73-111.
setup_tracing(st, failing) ==
    IF "provider" \in failing
    THEN [st EXCEPT !.logged = @ \cup {"tracing"}, !.raised = st.debug]
    ELSE LET e == setup_exporters(st.endpoints, st.debug, failing)
         IN [st EXCEPT !.processors = e.processors,
                       !.logged = @ \cup e.logged,
                       !.provider_installed = TRUE,
                       !.initialized = TRUE]

\* _setup_instrumentations, lines 161-214.
setup_instrumentations(st, failing) ==
    IF ~st.initialized THEN st
    ELSE IF "instrument" \in failing
    THEN [st EXCEPT !.logged = @ \cup {"instrumentations"},
                    !.raised = st.debug]
    ELSE [st EXCEPT !.instrumented = TRUE]

\* TracingManager.__init__, lines 52-71.
TracingManager(st, failing) ==
    IF ~st.available THEN [st EXCEPT !.done = TRUE]
    ELSE LET a == setup_tracing(st, failing)
             b == IF a.raised THEN a ELSE setup_instrumentations(a, failing)
         IN [b EXCEPT !.done = TRUE, !.failing = failing]

\* The steps that run for a configuration when the steps of `failing` raise.
Attempted(st, failing) ==
    IF "provider" \in failing THEN {"provider"}
    ELSE setup_exporters(st.endpoints, st.debug, failing).attempted
             \cup {"provider", "instrument"}

SetupInit ==
    /\ \E a \in BOOLEAN, e \in SUBSET Sinks, d \in BOOLEAN :
           setup = [NoSetup EXCEPT !.available = a, !.endpoints = e,
                                   !.debug = d]
    /\ metrics = NewCollector(TRUE)
    /\ tracing = [initialized |-> FALSE, sample_rate |-> 1]
    /\ request = [r \in Req |-> NewRequest(TestPath)]
    /\ span = [r \in Req |-> NoSpan]
    /\ pc = [r \in Req |-> "received"]
    /\ biz = [r \in Req |-> [kind |-> "none", status |-> 0, exception |-> None]]
    /\ result = [r \in Req |-> NoResult]
    /\ logs = [r \in Req |-> [start |-> 0, end |-> 0, exception |-> 0]]
    /\ hist = [r \in Req |-> NoHist]
    /\ faults = 0
    /\ hook = NoHookCall
    /\ call = NoApiCall
    /\ mcall = NoCollectorCall
    /\ lbl = NoLabel
    /\ prop = NoPropagation
    /\ excl = NoCheck
    /\ single = NoSingleton

\* TracingManager(config)
construct_manager ==
    /\ ~setup.done
    /\ \E failing \in SUBSET SetupFaults :
           /\ Cardinality(failing) <= MaxFaults
           /\ setup.available \/ failing = {}
           /\ failing \subseteq Attempted(setup, failing)
           /\ faults' = Cardinality(failing)
           /\ setup' = TracingManager(setup, failing)
           /\ tracing' = [tracing EXCEPT
                             !.initialized = setup'.initialized]
    /\ UNCHANGED <<metrics, request, span, pc, biz, result, logs, hist,
                   hook, call, mcall, lbl, prop, excl, single>>

\* The manager that was constructed is used: its span interface is called
\* in any order.  No manager exists when the constructor raised.
use_manager ==
    /\ setup.done
    /\ ~setup.raised
    /\ TracingNext

SetupNext ==
    \/ construct_manager
    \/ use_manager

SetupSpec == SetupInit /\ [][SetupNext]_vars

(***************************************************************************)
(* start_request_span for requests that may carry a traceparent header,    *)
(* called while the current context may hold the span of another           *)
(* instrumentation (the DjangoInstrumentor of _setup_instrumentations).    *)
(***************************************************************************)
\* What a traceparent header parses to: two valid values and a malformed
\* one.
InboundTraceparents == {<<1, 7>>, <<2, 8>>, <<0, 0>>}

\* request.META: the host header, the peer address and, possibly, an
\* inbound traceparent header.
Metas ==
    {[k \in {"HTTP_HOST", "REMOTE_ADDR"} |-> EmptyContext]}
    \cup {[k \in {"HTTP_HOST", "REMOTE_ADDR", "HTTP_TRACEPARENT"} |->
               IF k = "HTTP_TRACEPARENT" THEN tp ELSE EmptyContext] :
              tp \in InboundTraceparents}

\* The span of the current context when start_request_span is called.
AmbientContexts == {EmptyContext, <<5, 5>>}

\* The identifiers the tracer generates for a new span.
FreshIds == {<<3, 3>>, <<4, 4>>}

PropagationInit ==
    /\ \E i \in BOOLEAN : tracing = [initialized |-> i, sample_rate |-> 1]
    /\ \E meta \in Metas, ambient \in AmbientContexts :
           prop = [NoPropagation EXCEPT !.meta = meta, !.ambient = ambient]
    /\ metrics = NewCollector(TRUE)
    /\ request = [r \in Req |-> NewRequest(TestPath)]
    /\ span = [r \in Req |-> NoSpan]
    /\ pc = [r \in Req |-> "received"]
    /\ biz = [r \in Req |-> [kind |-> "none", status |-> 0, exception |-> None]]
    /\ result = [r \in Req |-> NoResult]
    /\ logs = [r \in Req |-> [start |-> 0, end |-> 0, exception |-> 0]]
    /\ hist = [r \in Req |-> NoHist]
    /\ faults = 0
    /\ hook = NoHookCall
    /\ call = NoApiCall
    /\ mcall = NoCollectorCall
    /\ lbl = NoLabel
    /\ setup = NoSetup
    /\ excl = NoCheck
    /\ single = NoSingleton

\* manager.start_request_span(request, correlation_id) for request r, whose
\* META is prop.meta.
start_span_for_request(r) ==
    /\ call.calls < MaxTraceCalls
    /\ span[r].state = "unstarted"
    /\ \E sampled \in BOOLEAN, fresh \in FreshIds, sf \in StartFaults :
           LET res == start_request_span(tracing, span[r], sampled, sf)
           IN /\ tracing.initialized \/ (sf = "none" /\ sampled)
              /\ faults + Cost(sf) <= MaxFaults
              /\ faults' = faults + Cost(sf)
              /\ span' = [span EXCEPT ![r] = res.s]
              /\ request' = [request EXCEPT
                                ![r].observability_span = res.handle]
              /\ call' = ApiCall("start_request_span", r, None, 0, 0, sf,
                                 res)
              /\ prop' = propagate_request_span(tracing, prop.meta,
                                                prop.ambient, fresh, sf)
    /\ UNCHANGED <<metrics, tracing, pc, biz, result, logs, hist, hook,
                   mcall, lbl, setup, excl, single>>

PropagationNext == \E r \in Req : start_span_for_request(r)

PropagationSpec == PropagationInit /\ [][PropagationNext]_vars

(***************************************************************************)
(* The exclusion check on its own: config.should_trace_request(path) for   *)
(* paths made of up to MaxPathLen of the tokens "/", "h" (health),         *)
(* "m" (metrics), "p" (prometheus) and "t" (test).                         *)
(***************************************************************************)
PathTokens == {"/", "h", "m", "p", "t"}

CheckedPaths == UNION {[1..n -> PathTokens] : n \in 1..MaxPathLen}

ExclusionInit ==
    /\ \E path \in CheckedPaths : excl = [NoCheck EXCEPT !.path = path]
    /\ single = NoSingleton
    /\ metrics = NewCollector(TRUE)
    /\ tracing = [initialized |-> TRUE, sample_rate |-> 1]
    /\ request = [r \in Req |-> NewRequest(TestPath)]
    /\ span = [r \in Req |-> NoSpan]
    /\ pc = [r \in Req |-> "received"]
    /\ biz = [r \in Req |-> [kind |-> "none", status |-> 0, exception |-> None]]
    /\ result = [r \in Req |-> NoResult]
    /\ logs = [r \in Req |-> [start |-> 0, end |-> 0, exception |-> 0]]
    /\ hist = [r \in Req |-> NoHist]
    /\ faults = 0
    /\ hook = NoHookCall
    /\ call = NoApiCall
    /\ mcall = NoCollectorCall
    /\ lbl = NoLabel
    /\ setup = NoSetup
    /\ prop = NoPropagation

\* config.should_trace_request(path)
check_path ==
    /\ ~excl.done
    /\ excl' = [excl EXCEPT !.traced = should_trace_request(excl.path),
                            !.done = TRUE]
    /\ UNCHANGED <<metrics, tracing, request, span, pc, biz, result, logs,
                   hist, faults, hook, call, mcall, lbl, setup, prop,
                   single>>

ExclusionNext == check_path

ExclusionSpec == ExclusionInit /\ [][ExclusionNext]_vars

(***************************************************************************)
(* The collector accessor on its own: NumCallers threads of one process    *)
(* call get_metrics_collector(config) concurrently.  The function holds no *)
(* lock, so the interpreter may switch threads between any two of its      *)
(* steps: the test of the module's slot, the construction of a collector,  *)
(* the assignment to the slot and the read of the slot for the return.     *)
(***************************************************************************)
CallerConfigs == {"settings", "get_config"}

SingletonInit ==
    /\ metrics = NewCollector(TRUE)
    /\ tracing = [initialized |-> TRUE, sample_rate |-> 1]
    /\ request = [r \in Req |-> NewRequest(TestPath)]
    /\ span = [r \in Req |-> NoSpan]
    /\ pc = [r \in Req |-> "received"]
    /\ biz = [r \in Req |-> [kind |-> "none", status |-> 0, exception |-> None]]
    /\ result = [r \in Req |-> NoResult]
    /\ logs = [r \in Req |-> [start |-> 0, end |-> 0, exception |-> 0]]
    /\ hist = [r \in Req |-> NoHist]
    /\ faults = 0
    /\ hook = NoHookCall
    /\ call = NoApiCall
    /\ mcall = NoCollectorCall
    /\ lbl = NoLabel
    /\ setup = NoSetup
    /\ prop = NoPropagation
    /\ excl = NoCheck
    /\ single = NoSingleton

unchanged_by_accessor ==
    UNCHANGED <<metrics, tracing, request, span, pc, biz, result, logs, hist,
                faults, hook, call, mcall, lbl, setup, prop, excl>>

\* A thread calls get_metrics_collector(config).
accessor_call(t) ==
    /\ single.pc[t] = "idle"
    /\ \E config \in CallerConfigs :
           single' = [single EXCEPT !.pc[t] = "test", !.config[t] = config]
    /\ unchanged_by_accessor

\* if _metrics_collector_instance is None:
accessor_test(t) ==
    /\ single.pc[t] = "test"
    /\ single' = [single EXCEPT !.pc[t] =
                      IF single.metrics_collector_instance = 0
                      THEN "construct" ELSE "return"]
    /\ unchanged_by_accessor

\* MetricsCollector(config): the right-hand side of the assignment.
accessor_construct(t) ==
    /\ single.pc[t] = "construct"
    /\ single' = [single EXCEPT
                      !.constructed = Append(@, single.config[t]),
                      !.made[t] = Len(single.constructed) + 1,
                      !.pc[t] = "store"]
    /\ unchanged_by_accessor

\* _metrics_collector_instance = <the collector just constructed>
accessor_store(t) ==
    /\ single.pc[t] = "store"
    /\ single' = [single EXCEPT
                      !.metrics_collector_instance = single.made[t],
                      !.pc[t] = "return"]
    /\ unchanged_by_accessor

\* return _metrics_collector_instance
accessor_return(t) ==
    /\ single.pc[t] = "return"
    /\ single' = [single EXCEPT
                      !.returned[t] = single.metrics_collector_instance,
                      !.pc[t] = "done"]
    /\ unchanged_by_accessor

SingletonNext ==
    \E t \in Callers :
        \/ accessor_call(t)
        \/ accessor_test(t)
        \/ accessor_construct(t)
        \/ accessor_store(t)
        \/ accessor_return(t)

SingletonSpec == SingletonInit /\ [][SingletonNext]_vars

(***************************************************************************)
(* Properties of the request lifecycle.                                    *)
(***************************************************************************)
MatchesExclusion(path) == \E p \in EXCLUDE_PATHS : StartsWith(path, p)

AdmittedReq(r) ==
    /\ ~MatchesExclusion(request[r].path)
    /\ pc[r] # "received"

Terminated(r) == pc[r] \in {"completed", "failed"}

Done(r) == pc[r] \in {"completed", "failed", "passed"}

MetricsOps ==
    {"start_request", "end_request", "increment_request_counter",
     "record_request_duration", "increment_response_counter",
     "increment_exception_counter"}

TracingOps == {"start_request_span", "end_request_span", "record_exception"}

\* C1: for every admitted request the increment of the active-requests
\* gauge made by start_request is matched by exactly one decrement, made by
\* the completion call or the exception call and never by both, once the
\* request has terminated.
C1_IncrementMatchedByOneDecrement ==
    \A r \in Req :
        (AdmittedReq(r) /\ Terminated(r) /\ hist[r].gauge_inc = 1)
            => hist[r].gauge_dec = 1

\* C2: with N requests running concurrently, the active-requests gauge is
\* at least 0 and at most N in every reachable state, and it is back to its
\* initial value when all N requests have terminated.
C2_GaugeWithinBoundsAndBalanced ==
    /\ metrics.django_active_requests >= 0
    /\ metrics.django_active_requests <= NumRequests
    /\ (\A r \in Req : Done(r)) => metrics.django_active_requests = 0

\* C5: no failure inside the metrics registry reaches the caller: no
\* collector operation called during a request lifecycle raises.
C5_MetricsCallsNeverRaise ==
    \A r \in Req : hist[r].escaped \cap MetricsOps = {}

\* C6: no failure inside the tracing manager reaches the caller: none of
\* start_request_span, end_request_span, record_exception raises.
C6_TracingCallsNeverRaise ==
    \A r \in Req : hist[r].escaped \cap TracingOps = {}

\* C9: for every request not matching an exclusion prefix exactly one
\* correlation id is generated and attached and exactly one top-level span
\* is created; the span is recording after start_request_span and is ended
\* exactly once, on the normal and on the exception path.  Stated for an
\* initialized tracing manager that samples every trace.
C9_OneCorrelationIdOneSpanEndedOnce ==
    \A r \in Req :
        (AdmittedReq(r) /\ tracing.initialized /\ tracing.sample_rate = 1) =>
            /\ hist[r].cids = 1
            /\ request[r].observability_correlation_id = new_correlation_id(r)
            /\ hist[r].spans = 1
            /\ pc[r] \in {"admitted", "biz_done"} => span[r].state = "recording"
            /\ Terminated(r) =>
                   (span[r].state = "ended" /\ span[r].end_calls = 1)

\* C3: every admitted request eventually reaches a terminal event, completed
\* or failed, whether the business logic returns or raises; it reaches
\* exactly one, and at that event the span-end call and the terminal
\* metrics call (end_request when completed, increment_exception_counter
\* when failed) have been made.
C3_AdmittedReachesOneTerminalEvent ==
    /\ \A r \in Req : (pc[r] = "admitted") ~> Terminated(r)
    /\ [](\A r \in Req : Terminated(r) =>
              /\ hist[r].terminals = 1
              /\ "end_request_span" \in hist[r].calls
              /\ pc[r] = "completed" =>
                     ("end_request" \in hist[r].calls
                      /\ "increment_exception_counter" \notin hist[r].calls)
              /\ pc[r] = "failed" =>
                     ("increment_exception_counter" \in hist[r].calls
                      /\ "end_request" \notin hist[r].calls))
    /\ [][\A r \in Req : Terminated(r) => pc'[r] = pc[r]]_vars

\* A request whose business logic raised has reached its terminal event.
C3_Witness ==
    \E r \in Req : pc[r] = "failed" /\ biz[r].kind = "exception"
                   /\ hist[r].terminals = 1

\* C4: a step taken for a request whose path matches an exclusion prefix
\* changes no metric instrument, creates no span, emits no log record and
\* generates or attaches no correlation id; process_request returns None
\* and the business response comes back with the status the business logic
\* gave it.
C4_ExcludedRequestShortCircuits ==
    [][\A r \in Req :
          (MatchesExclusion(request[r].path) /\ pc'[r] # pc[r]) =>
              /\ metrics' = metrics
              /\ span' = span
              /\ logs' = logs
              /\ hist' = hist
              /\ request'[r].observability_correlation_id = 0
              /\ request'[r].observability_span = None
              /\ pc[r] = "received" => result'[r].process_request = None
              /\ (pc[r] = "biz_done" /\ biz[r].kind = "response") =>
                     result'[r].status = biz[r].status]_vars

\* An excluded request went through process_request, the business logic and
\* process_response while another request was instrumented.
C4_Witness ==
    \E r \in Req :
        /\ MatchesExclusion(request[r].path)
        /\ pc[r] = "passed"
        /\ result[r].process_request = None
        /\ result[r].status = biz[r].status
        /\ metrics.django_active_requests > 0

\* C7: a business exception is observed, never consumed.  On the failed
\* path process_exception returns None and the host goes on with the
\* original exception; a call made through a cache or database hook whose
\* collaborator raised ends with that same exception.  The hooks decide
\* this formula: the requests do not move in the specification of the
\* hooks.
C7_OriginalExceptionPropagates ==
    /\ \A r \in Req : pc[r] = "failed" =>
           (result[r].process_exception = None
            /\ result[r].exception = biz[r].exception)
    /\ (hook.op \in {"cache.get", "cache.set", "hooked cursor.execute"}
           /\ hook.original.raised) => hook.out = hook.original

\* C8: for an admitted request process_request returned None, and a
\* completed request's response carries the status the business logic
\* produced, whether or not an instrumentation step failed.
C8_BusinessOutcomeUnchanged ==
    \A r \in Req :
        AdmittedReq(r) =>
            /\ result[r].process_request = None
            /\ pc[r] = "completed" =>
                   (biz[r].kind = "response"
                    /\ result[r].status = biz[r].status)

\* A request completed with its business status although an instrumentation
\* call made for it raised.
C8_Witness ==
    \E r \in Req :
        /\ pc[r] = "completed"
        /\ hist[r].escaped # {}
        /\ result[r].status = biz[r].status
        /\ result[r].process_request = None

\* C10: end_request_span called on a span that has already ended, on a
\* non-recording span, or with None for the handle raises nothing and
\* leaves the span's state, status, status code and duration as they were.
C10_EndOnEndedOrNoopIsNoOp ==
    (call.op = "end_request_span"
        /\ (call.handle = None \/ call.before.state \in {"ended", "noop"})) =>
            /\ ~call.raised
            /\ span[call.r].state = call.before.state
            /\ span[call.r].status = call.before.status
            /\ span[call.r].status_code = call.before.status_code
            /\ span[call.r].duration_ms = call.before.duration_ms

\* end_request_span was called with the handle of a span that had ended
\* with its attributes set.
C10_Witness ==
    /\ call.op = "end_request_span"
    /\ call.handle = "span"
    /\ call.before.state = "ended"
    /\ call.before.status = "OK"
    /\ call.before.duration_ms > 0

(***************************************************************************)
(* Properties of the Tracing Manager's span interface.                     *)
(***************************************************************************)
\* The last call was an end_request_span that ended a recording span and
\* was given a response.
EndedWithResponse ==
    /\ call.op = "end_request_span"
    /\ call.response_status # 0
    /\ call.before.state = "recording"
    /\ span[call.r].state = "ended"

C12_RecordedExceptionStaysError ==
    \A r \in Req : span[r].exception => span[r].status = "ERROR"

(***************************************************************************)
(* Properties of the collector's interface.                                *)
(***************************************************************************)
\* The last call, `op`, was made on an available collector and no step of
\* it raised.
CleanCall(op) ==
    /\ mcall.op = op
    /\ is_available(mcall.before)
    /\ \A i \in 1..Len(mcall.faults) : mcall.faults[i] = "none"

HasSample(text, name, key) ==
    \E sample \in text : sample[1] = name /\ sample[2] = key

\* C13: a completed request (end_request on an available collector, no
\* step failing) adds exactly 1 to the requests-total series labelled with
\* the request's method, endpoint label, status code and view name and to
\* no other series, adds exactly one observation to the duration histogram
\* for the same labels, and the snapshot then shows both series.
C13_CompletionCountsOnce ==
    CleanCall("end_request") =>
        LET key == <<mcall.request.method,
                     get_endpoint_label(mcall.request), mcall.status,
                     get_view_name(mcall.request)>>
            text == get_metrics(metrics, "none").text
        IN /\ metrics.http_requests_total =
                  Bump(mcall.before.http_requests_total, key)
           /\ metrics.http_request_duration =
                  Bump(mcall.before.http_request_duration, key)
           /\ metrics.http_exceptions_total =
                  mcall.before.http_exceptions_total
           /\ HasSample(text, "http_requests_total", key)
           /\ HasSample(text, "http_request_duration_seconds_count", key)

\* A second completion with the same labels took the series from 1 to 2.
C13_Witness ==
    /\ CleanCall("end_request")
    /\ \E k \in DOMAIN metrics.http_requests_total :
           /\ metrics.http_requests_total[k] = 2
           /\ metrics.http_request_duration[k] = 2
           /\ k[3] = mcall.status

\* C14: increment_exception_counter for a request (available collector, no
\* step failing) adds exactly 1 to the exceptions series labelled with the
\* request's method, endpoint label and the exception's class name,
\* decrements the active-requests gauge once and changes nothing else.
C14_ExceptionCountsOnce ==
    (CleanCall("increment_exception_counter")
         /\ mcall.request # NoRequest) =>
        metrics = [mcall.before EXCEPT
                      !.http_exceptions_total =
                          Bump(@, <<mcall.request.method,
                                    get_endpoint_label(mcall.request),
                                    mcall.exception>>),
                      !.django_active_requests = @ - 1]

\* The exception of a started request was counted and the gauge went from
\* 1 back to 0.
C14_Witness ==
    /\ CleanCall("increment_exception_counter")
    /\ mcall.request # NoRequest
    /\ mcall.before.django_active_requests = 1
    /\ metrics.django_active_requests = 0
    /\ \E k \in DOMAIN metrics.http_exceptions_total :
           metrics.http_exceptions_total[k] = 1

(***************************************************************************)
(* Properties of the endpoint labeller.                                    *)
(***************************************************************************)
IsNumeric(seg) == \A i \in 1..Len(seg) : seg[i] \in Digits

IsUuidShaped(seg) ==
    Len(seg) = UuidLen /\ \A i \in 1..Len(seg) : seg[i] \in UuidChars

\* The segments of a path with every numeric segment blanked out.
IdShape(segs) ==
    [i \in 1..Len(segs) |-> IF IsNumeric(segs[i]) THEN <<"{id}">>
                            ELSE segs[i]]

\* The segments of a path with every UUID-shaped segment blanked out.
UuidShape(segs) ==
    [i \in 1..Len(segs) |-> IF IsUuidShaped(segs[i]) THEN <<"{uuid}">>
                            ELSE segs[i]]

LabelOf(segs) ==
    get_endpoint_label(LabelledRequest(segs, lbl.trailing, lbl.url_name))

\* C15: for a request without a resolved route name, every path that
\* differs from the request's path only in the values of its numeric
\* segments gets the label the request got, wherever those segments stand.
C15_NumericSegmentsCollapse ==
    (lbl.done /\ lbl.url_name = None) =>
        \A other \in SegmentLists :
            IdShape(other) = IdShape(lbl.segments) =>
                LabelOf(other) = lbl.label

\* C16: normalizing a label again gives the same label.
C16_NormalizationIdempotent ==
    lbl.done => lbl.again = lbl.label

\* C17: for a request without a resolved route name, every path that
\* differs from the request's path only in the values of its UUID-shaped
\* segments gets the label the request got.
C17_UuidSegmentsCollapse ==
    (lbl.done /\ lbl.url_name = None) =>
        \A other \in SegmentLists :
            UuidShape(other) = UuidShape(lbl.segments) =>
                LabelOf(other) = lbl.label

(***************************************************************************)
(* Properties of the collector without its backend.                        *)
(***************************************************************************)
\* C18: get_metrics never raises and returns the empty exposition when the
\* collector is unavailable or rendering fails, also after a failed
\* instrument write; constructing a collector and completing a request
\* never raise, with or without the metrics backend.
C18_SnapshotNeverRaisesBackendOptional ==
    /\ mcall.op = "get_metrics" =>
           /\ ~mcall.raised
           /\ (~is_available(mcall.before) \/ mcall.faults = <<"render">>)
                  => mcall.text = {}
    /\ mcall.op \in {"construct", "end_request"} => ~mcall.raised

RecordingOps ==
    {"start_request", "end_request", "increment_exception_counter",
     "record_db_query", "record_cache_operation"}

\* C19: on a collector that is not available every recording call returns
\* without raising and leaves every instrument and the installed database
\* and cache hooks as they were, and create_custom_* returns None and
\* creates nothing.
C19_UnavailableCollectorRecordsNothing ==
    ~is_available(mcall.before) =>
        /\ mcall.op \in RecordingOps =>
               ~mcall.raised /\ metrics = mcall.before
        /\ mcall.op = "create_custom" =>
               /\ ~mcall.raised
               /\ mcall.result = None
               /\ metrics = mcall.before

\* start_request was the third call in a row on an unavailable collector.
C19_Witness ==
    /\ mcall.op = "start_request"
    /\ ~is_available(mcall.before)
    /\ mcall.calls = 3
    /\ metrics.cache_layers = 0
    /\ metrics.db_hooks = 0

(***************************************************************************)
(* Properties of the hook installation.                                    *)
(***************************************************************************)
RECURSIVE SeriesTotal(_, _)
SeriesTotal(f, keys) ==
    IF keys = {} THEN 0
    ELSE LET k == CHOOSE x \in keys : TRUE
         IN f[k] + SeriesTotal(f, keys \ {k})

\* The value of the cache-operations counter summed over its label sets.
CacheOperationsTotal(m) ==
    SeriesTotal(m.django_cache_operations_total,
                DOMAIN m.django_cache_operations_total)

\* A step that is one cache.get or cache.set in which no write failed.
CacheOperationStep ==
    /\ hook'.calls = hook.calls + 1
    /\ hook'.op \in {"cache.get", "cache.set"}
    /\ faults' = faults

\* C20: on an available collector the cache operations are wrapped by
\* exactly one recording layer, however many requests were started, and a
\* single cache operation adds exactly 1 to the cache-operations counter.
C20_HooksInstalledOnce ==
    [][/\ is_available(metrics') => metrics'.cache_layers = 1
       /\ (is_available(metrics) /\ CacheOperationStep) =>
              CacheOperationsTotal(metrics') =
                  CacheOperationsTotal(metrics) + 1]_vars

(***************************************************************************)
(* Properties of the TracingManager's construction.                        *)
(***************************************************************************)
\* C21: after construction every configured sink whose exporter was
\* constructed without failure has a span processor registered, for every
\* subset of the three sinks.
C21_EveryConfiguredSinkRegistered ==
    (setup.done /\ setup.initialized) =>
        \A sink \in setup.endpoints \ setup.failing :
            sink \in setup.processors

\* C22: when the constructor of an exporter raises, the failure is logged,
\* nothing is raised, every other configured sink is registered, the
\* provider is installed and the manager is initialized.
C22_ExporterFailureIsolated ==
    (setup.done /\ setup.failing # {} /\ setup.failing \subseteq Sinks) =>
        /\ ~setup.raised
        /\ setup.failing \subseteq setup.logged
        /\ setup.provider_installed
        /\ setup.initialized
        /\ \A sink \in setup.endpoints \ setup.failing :
               sink \in setup.processors

(***************************************************************************)
(* Properties of trace propagation.                                        *)
(***************************************************************************)
InboundTraceparent(meta) ==
    IF "HTTP_TRACEPARENT" \in DOMAIN meta THEN meta["HTTP_TRACEPARENT"]
    ELSE EmptyContext

\* C23: the span started for a request with a valid traceparent header
\* has the header's trace id and the header's span as its parent; with the
\* header absent or malformed the span has no parent.
C23_SpanContinuesInboundTrace ==
    (prop.started /\ ~prop.raised) =>
        LET inbound == InboundTraceparent(prop.meta)
        IN IF inbound # EmptyContext
           THEN /\ prop.span_context.trace = inbound[1]
                /\ prop.span_context.parent = inbound[2]
           ELSE prop.span_context.parent = 0

\* C24: extracting a context from the carrier attached to the request
\* gives the context of the span just started.
C24_CarrierRoundTripsSpanContext ==
    prop.attached =>
        extract(prop.carrier) =
            <<prop.span_context.trace, prop.span_context.span>>

(***************************************************************************)
(* Properties of the no-op handle.                                         *)
(***************************************************************************)
\* C25: on a manager that is not initialized or does not sample the
\* request, start_request_span returns (None or a non-recording span)
\* without raising, and a later end_request_span or record_exception on
\* that handle returns without raising and leaves the span as it was.
C25_NoopHandleAbsorbsCalls ==
    /\ (call.op = "start_request_span"
           /\ (~tracing.initialized \/ tracing.sample_rate = 0)) =>
               /\ ~call.raised
               /\ span[call.r].state \in {"unstarted", "noop"}
    /\ (call.op \in {"end_request_span", "record_exception"}
           /\ (call.handle = None \/ call.before.state = "noop")) =>
               /\ ~call.raised
               /\ span[call.r].state = call.before.state
               /\ span[call.r].status = call.before.status
               /\ span[call.r].status_code = call.before.status_code
               /\ span[call.r].duration_ms = call.before.duration_ms
               /\ span[call.r].exception = call.before.exception

(***************************************************************************)
(* Properties of the custom instruments.                                   *)
(***************************************************************************)
\* C26: on an available collector create_custom_* never raises; it returns
\* a new instrument, registered under the prefixed name and shown by the
\* snapshot, when the constructor accepts it, and returns None when
\* creation fails (the name is already registered); either way every
\* instrument that existed before is unchanged.
C26_CustomInstrumentCreatedOrNone ==
    (mcall.op = "create_custom" /\ is_available(mcall.before)) =>
        LET registered == metric_name(mcall.name)
            fails == mcall.faults # <<"none">>
                         \/ registered \in mcall.before.custom
        IN /\ ~mcall.raised
           /\ metrics = [mcall.before EXCEPT !.custom = metrics.custom]
           /\ IF fails
              THEN /\ mcall.result = None
                   /\ metrics.custom = mcall.before.custom
              ELSE /\ mcall.result = "instrument"
                   /\ metrics.custom =
                          mcall.before.custom \cup {registered}
                   /\ HasSample(get_metrics(metrics, "none").text,
                                registered, <<>>)

\* A second registration of a name was refused while another custom
\* instrument was registered.
C26_Witness ==
    /\ mcall.op = "create_custom"
    /\ is_available(mcall.before)
    /\ mcall.faults = <<"none">>
    /\ metric_name(mcall.name) \in mcall.before.custom
    /\ mcall.result = None
    /\ Cardinality(metrics.custom) = 2

(***************************************************************************)
(* Properties of the database and cache recording.                         *)
(***************************************************************************)
\* A step that is one call through a cache or database hook.
HookStep == hook'.calls = hook.calls + 1

\* C27: a call through a cache or database hook, made with no request in
\* flight, hands on what the wrapped call returned or raised, and changes
\* neither the active-requests gauge nor the requests-total counter.
C27_HooksIndependentOfRequests ==
    [][HookStep =>
           /\ hook'.out = hook'.original
           /\ metrics'.django_active_requests =
                  metrics.django_active_requests
           /\ metrics'.http_requests_total = metrics.http_requests_total]_vars

(***************************************************************************)
(* Properties of the exclusion check.                                      *)
(***************************************************************************)
\* The path begins with the whole of the prefix.
HasPrefix(path, prefix) ==
    /\ Len(path) >= Len(prefix)
    /\ SubSeq(path, 1, Len(prefix)) = prefix

\* C28: should_trace_request(path) is false exactly when the path begins
\* with one of the configured exclusion prefixes: /metrics/prometheus is
\* excluded by /metrics/, and a path that only shares the beginning of a
\* prefix, or holds a prefix further on, is traced.
C28_ExclusionIsPrefixMatch ==
    excl.done =>
        (~excl.traced <=>
            \E prefix \in EXCLUDE_PATHS : HasPrefix(excl.path, prefix))

\* /metrics/prometheus was checked and was excluded.
C28_Witness ==
    /\ excl.done
    /\ excl.path = <<"/", "m", "/", "p">>
    /\ ~excl.traced

(***************************************************************************)
(* Properties of the counters.                                             *)
(***************************************************************************)
\* Every series of the counter is still there and has not decreased.
NotDecreased(before, after) ==
    \A k \in DOMAIN before : k \in DOMAIN after /\ after[k] >= before[k]

\* C29: over any sequence of collector operations no series of the
\* requests-total, exceptions, database-queries or cache-operations
\* counters ever decreases or disappears.
C29_CountersMonotonic ==
    [][/\ NotDecreased(metrics.http_requests_total,
                       metrics'.http_requests_total)
       /\ NotDecreased(metrics.http_exceptions_total,
                       metrics'.http_exceptions_total)
       /\ NotDecreased(metrics.django_db_queries_total,
                       metrics'.django_db_queries_total)
       /\ NotDecreased(metrics.django_cache_operations_total,
                       metrics'.django_cache_operations_total)]_vars

\* A cache operation was recorded while the cache-operations counter held
\* another series, and a counter series has been incremented.
C29_Witness ==
    /\ mcall.op = "record_cache_operation"
    /\ \E k \in DOMAIN mcall.before.django_cache_operations_total :
           /\ k \in DOMAIN metrics.django_cache_operations_total
           /\ \E j \in DOMAIN metrics.django_cache_operations_total :
                  j # k /\ j \notin DOMAIN
                                 mcall.before.django_cache_operations_total

\* C30: when the requests-total counter write, or the label computation
\* before it, fails during end_request, the active-requests gauge is still
\* decremented exactly once.
C30_GaugeDecrementedWhenCounterFails ==
    (mcall.op = "end_request"
        /\ is_available(mcall.before)
        /\ mcall.faults[2] \in {"labels", "write"}) =>
            metrics.django_active_requests =
                mcall.before.django_active_requests - 1

\* C31: the active-requests gauge is never negative after any sequence of
\* calls to the collector's public operations, a terminal call
\* (increment_exception_counter with a request, or end_request's
\* increment_response_counter) for a request that was never started
\* included.
C31_GaugeNeverNegative ==
    mcall.op \in {"start_request", "end_request",
                  "increment_exception_counter", "record_db_query",
                  "record_cache_operation", "get_metrics", "metrics_view",
                  "create_custom"}
        => metrics.django_active_requests >= 0

\* C32: get_metrics_collector yields one collector per process: under any
\* interleaving of concurrent first calls MetricsCollector is constructed at
\* most once, and every caller, whatever configuration it passes, receives
\* the same instance.
C32_OneCollectorPerProcess ==
    /\ Len(single.constructed) <= 1
    /\ \A t, u \in Callers :
           (single.pc[t] = "done" /\ single.pc[u] = "done")
               => single.returned[t] = single.returned[u]

(***************************************************************************)
(* Properties of the TracingManager's construction.                        *)
(***************************************************************************)
\* The tracer setup of the constructed manager failed with DEBUG_MODE off.
TracerSetupFailed ==
    /\ setup.done
    /\ setup.available
    /\ ~setup.debug
    /\ "provider" \in setup.failing

\* C33: with DEBUG_MODE off, constructing a TracingManager never raises
\* whatever setup step fails; when the tracer setup fails the manager stays
\* uninitialized with no auto-instrumentation installed, and from then on
\* start_request_span returns None and end_request_span and
\* record_exception change nothing and do not raise.
C33_FailedSetupLeavesManagerInert ==
    /\ (setup.done /\ ~setup.debug) => ~setup.raised
    /\ TracerSetupFailed =>
           /\ ~setup.initialized
           /\ ~tracing.initialized
           /\ ~setup.instrumented
           /\ call.op # "none" =>
                  /\ ~call.raised
                  /\ span[call.r] = call.before
                  /\ call.op = "start_request_span" =>
                         request[call.r].observability_span = None

\* The tracer setup failed with DEBUG_MODE off and the manager's span
\* interface was then called at least twice, last to end a request's span.
C33_Witness ==
    /\ TracerSetupFailed
    /\ call.op = "end_request_span"
    /\ call.calls >= 2
    /\ \E r \in Req : span[r] = NoSpan /\ call.r = r

\* _setup_exporters ran to its end for the constructed manager.
ExportersReturned ==
    /\ setup.done
    /\ setup.available
    /\ "provider" \notin setup.failing

\* C34: after _setup_exporters returns, the tracer provider has at least
\* one span processor whatever the endpoint configuration and whichever
\* exporter constructions failed: the console exporter is there whenever
\* DEBUG_MODE is on or no other exporter was set up.
C34_ProviderHasAProcessor ==
    ExportersReturned =>
        /\ setup.processors # {}
        /\ (setup.debug \/ setup.processors \cap Sinks = {})
               => "console" \in setup.processors

\* With DEBUG_MODE off, the only configured sink's exporter failed and the
\* console exporter took its place.
C34_Witness ==
    /\ ExportersReturned
    /\ ~setup.debug
    /\ setup.endpoints # {}
    /\ setup.failing \cap Sinks # {}
    /\ setup.processors = {"console"}

(***************************************************************************)
(* Properties of the cache hook.                                           *)
(***************************************************************************)
\* The result under which a cache operation with the given collaborator
\* outcome is to be recorded.
CacheResult(op, original) ==
    IF original.raised THEN "error"
    ELSE IF op = "cache.set" THEN "success"
    ELSE IF original.value # None THEN "hit"
    ELSE "miss"

CacheOperation(op) == IF op = "cache.get" THEN "get" ELSE "set"

\* C35: the cache hook classifies each wrapped operation into exactly one
\* result and returns the collaborator's outcome unchanged: a get that
\* returns a value other than None is recorded as hit, a get that returns
\* None as miss, a set that returns as success, and a get or set that
\* raises as error; no series of another result changes.
C35_CacheOperationClassified ==
    [][(hook'.calls = hook.calls + 1
            /\ hook'.op \in {"cache.get", "cache.set"}) =>
           /\ hook'.out = hook'.original
           /\ (is_available(metrics) /\ metrics.cache_layers > 0
                   /\ faults' = faults) =>
                  LET key == <<"default", CacheOperation(hook'.op),
                               CacheResult(hook'.op, hook'.original)>>
                      before == metrics.django_cache_operations_total
                      after == metrics'.django_cache_operations_total
                  IN /\ Count(after, key) > Count(before, key)
                     /\ \A k \in DOMAIN after \cup DOMAIN before :
                            k # key => Count(after, k) = Count(before, k)]_vars

\* A hooked cache.get returned None and was recorded as a miss, after a
\* hooked cache.set that raised was recorded as an error.
C35_Witness ==
    /\ is_available(metrics)
    /\ hook.op = "cache.get"
    /\ hook.layers > 0
    /\ hook.original = Returned(None)
    /\ hook.out = Returned(None)
    /\ Count(metrics.django_cache_operations_total,
             <<"default", "get", "miss">>) > 0
    /\ Count(metrics.django_cache_operations_total,
             <<"default", "set", "error">>) > 0

(***************************************************************************)
(* Properties of the snapshot.                                             *)
(***************************************************************************)
SnapshotOps == {"get_metrics", "metrics_view"}

\* C36: taking a snapshot is read-only: get_metrics and metrics_view leave
\* every counter, gauge and histogram value unchanged, so two consecutive
\* snapshots with no recording call between them are identical.
C36_SnapshotReadOnly ==
    [][(mcall'.calls = mcall.calls + 1 /\ mcall'.op \in SnapshotOps) =>
           /\ metrics' = metrics
           /\ (mcall.op \in SnapshotOps
                   /\ mcall.faults = <<"none">>
                   /\ mcall'.faults = <<"none">>)
                  => mcall'.text = mcall.text]_vars

\* Two snapshots in a row, through get_metrics and then through the view, of
\* a collector that has counted a completed request.
C36_Witness ==
    /\ mcall.op = "metrics_view"
    /\ mcall.previous = "get_metrics"
    /\ mcall.faults = <<"none">>
    /\ \E k \in DOMAIN metrics.http_requests_total :
           <<"http_requests_total", k, 1>> \in mcall.text
    /\ mcall.before = metrics

====
